---- MODULE Spec2Model ----
(***************************************************************************)
(* A model of viral-content-breakdown/scripts/fetch_content.py (with the   *)
(* helpers of common.py it calls).                                         *)
(*                                                                         *)
(* Text (URLs, stderr) is a sequence of tokens.  A token is a chunk of     *)
(* characters; every text of the model is cut finely enough that each      *)
(* occurrence of a pattern the code searches for starts and ends on a      *)
(* token boundary, so Python's  `p in t`  is  Contains(t, p)  and          *)
(* `t.startswith(p)`  is  StartsWith(t, p).                                *)
(***************************************************************************)
EXTENDS Integers, Sequences, FiniteSets, TLC

VARIABLES
    pc,               \* position of main(): "start", "specialized", "yt_dlp", "variants", "post", "done"
                      \* (or "call"/"returned" for a single function under test)
    raw_url,          \* args.url, a text
    url,              \* the normalized url main() works with
    normalize_note,   \* second component of _normalize_content_url
    platform,         \* detect_platform(url)
    PATH,             \* the executables find_executable can find
    session,          \* the session document read from --session-file
    args_input,       \* the --input-video/-image/-audio/-transcript lists
    disk,             \* the regular files that exist outside the download dir
    world,            \* what the external tools can do in this run: the files they can
                      \* write and the texts they can print on stderr
    files,            \* _all_files(download_dir)
    manual_assets,    \* _collect_manual_assets(args), taken ahead of the adapters
    adapter_attempts, \* the attempt log of main()
    success,          \* main()'s success flag
    cand,             \* index of the candidate the specialized loop is at
    before,           \* the `before` snapshot of _run_yt_dlp
    attempt_details,  \* the attempt_details list of _run_yt_dlp
    vi,               \* index of the cookie variant the yt-dlp loop is at
    executed,         \* history: every adapter invocation run_cmd executed, in order
    result,           \* the documents write_json wrote to result_file, in order
    exit_code,        \* the return value of main() (-1 before)
    arg,              \* the argument of the function under test (the command line of
                      \* run_pipeline.py in its runs)
    ret,              \* its return value
    run_meta,         \* the run_meta dict of run_pipeline.main
    out_dir,          \* the files under the orchestrator's output directory: path -> content
    launched,         \* history: every step subprocess.run launched, with what it did
    written,          \* history: the files the orchestrator itself wrote, in order
    pipeline_exit     \* the return value of run_pipeline.main (-1 before)

vars == <<pc, raw_url, url, normalize_note, platform, PATH, session, args_input, disk, world,
          files, manual_assets, adapter_attempts, success, cand, before, attempt_details, vi,
          executed, result, exit_code, arg, ret,
          run_meta, out_dir, launched, written, pipeline_exit>>

pipe_vars == <<run_meta, out_dir, launched, written, pipeline_exit>>

\* no run of the orchestrator
NoPipeline ==
    /\ run_meta = <<>> /\ out_dir = <<>> /\ launched = <<>> /\ written = <<>>
    /\ pipeline_exit = -1

------------------------------------------------------------------------------
(* Text helpers *)

Contains(t, p) == \E i \in 0..(Len(t) - Len(p)) : SubSeq(t, i + 1, i + Len(p)) = p

StartsWith(t, p) == Len(p) <= Len(t) /\ SubSeq(t, 1, Len(p)) = p

\* str.lower() on one token: the model's only upper-case tokens
LowerTok(c) ==
    CASE c = "DOUYIN" -> "douyin"
      [] c = "COM" -> "com"
      [] c = "WWW" -> "www"
      [] c = "Forbidden" -> "forbidden"
      [] c = "HTTP Error " -> "http error "
      [] c = "Name or service not known" -> "name or service not known"
      [] c = "Operation not permitted" -> "operation not permitted"
      [] c = "Cookie" -> "cookie"
      [] OTHER -> c

Lower(t) == [i \in 1..Len(t) |-> LowerTok(t[i])]

\* the first index >= from of a token of S in t, Len(t)+1 when there is none
FirstIdx(t, S, from) ==
    LET hits == {i \in from..Len(t) : t[i] \in S}
    IN IF hits = {} THEN Len(t) + 1 ELSE CHOOSE i \in hits : \A j \in hits : i <= j

\* str.strip(): leading and trailing blanks removed
Strip(t) ==
    LET keep == {i \in 1..Len(t) : t[i] # " "}
    IN IF keep = {} THEN <<>>
       ELSE SubSeq(t, CHOOSE i \in keep : \A j \in keep : i <= j,
                      CHOOSE i \in keep : \A j \in keep : j <= i)

------------------------------------------------------------------------------
(* urllib.parse as fetch_content.py and common.py use it *)

\* urlparse(url): the netloc is read only after "scheme://"; the path ends at
\* the first "?" or "#", the query at the first "#".
urlparse(u) ==
    LET hasNet == Len(u) >= 2 /\ u[2] = "://"
        from == IF hasNet THEN 3 ELSE 1
        netEnd == IF hasNet THEN FirstIdx(u, {"/", "?", "#"}, from) ELSE from
        pathEnd == FirstIdx(u, {"?", "#"}, netEnd)
        qEnd == FirstIdx(u, {"#"}, pathEnd)
    IN [netloc |-> IF hasNet THEN SubSeq(u, from, netEnd - 1) ELSE <<>>,
        path |-> SubSeq(u, netEnd, pathEnd - 1),
        query |-> IF pathEnd <= Len(u) /\ u[pathEnd] = "?"
                  THEN SubSeq(u, pathEnd + 1, qEnd - 1) ELSE <<>>]

\* urllib's unquote on one token: the model's percent-encoded tokens
Unquote(c) ==
    CASE c = "%2F" -> "/"
      [] c = "%3F" -> "?"
      [] c = "%3D" -> "="
      [] OTHER -> c

\* the "&"-separated fields of a query, in order
RECURSIVE SplitAmp(_)
SplitAmp(q) ==
    IF q = <<>> THEN <<>>
    ELSE LET cut == FirstIdx(q, {"&"}, 1)
         IN <<SubSeq(q, 1, cut - 1)>> \o (IF cut >= Len(q) THEN <<>> ELSE SplitAmp(SubSeq(q, cut + 1, Len(q))))

\* parse_qs(query).get(key, [None])[0]: the decoded value of the first field
\* named key whose value is not blank (parse_qs drops blank values); <<>> is None
QsFirst(q, key) ==
    LET fields == SplitAmp(q)
        name(f) == [i \in 1..(FirstIdx(f, {"="}, 1) - 1) |-> Unquote(f[i])]
        value(f) == LET e == FirstIdx(f, {"="}, 1)
                    IN IF e >= Len(f) THEN <<>>
                       ELSE [i \in 1..(Len(f) - e) |-> Unquote(f[e + i])]
        hits == {i \in 1..Len(fields) : name(fields[i]) = key /\ value(fields[i]) # <<>>}
    IN IF hits = {} THEN <<>>
       ELSE value(fields[CHOOSE i \in hits : \A j \in hits : i <= j])

DOUYIN_COM == <<"douyin", ".", "com">>
IESDOUYIN_COM == <<"ies", "douyin", ".", "com">>
XIAOHONGSHU_COM == <<"xiaohongshu", ".", "com">>
XHSLINK_COM == <<"xhslink", ".", "com">>
MP_WEIXIN_QQ_COM == <<"mp", ".", "weixin", ".", "qq", ".", "com">>

\* common.detect_platform
detect_platform(u) ==
    LET host == Lower(urlparse(u).netloc)
    IN IF Contains(host, DOUYIN_COM) \/ Contains(host, IESDOUYIN_COM) THEN "douyin"
       ELSE IF Contains(host, XIAOHONGSHU_COM) \/ Contains(host, XHSLINK_COM) THEN "xiaohongshu"
       ELSE "unknown"

\* a variant of _normalize_content_url that keeps the query of the source url
normalize_keep_query(u) ==
    LET parsed == urlparse(u)
        host == Lower(parsed.netloc)
        modal_id == QsFirst(parsed.query, <<"modal_id">>)
    IN IF Contains(host, DOUYIN_COM) /\ modal_id # <<>> /\ StartsWith(parsed.path, <<"/", "user", "/">>)
       THEN [url |-> <<"https", "://", "www", ".", "douyin", ".", "com">> \o parsed.path
                       \o <<"?">> \o parsed.query \o <<"&", "video", "=">> \o modal_id,
             note |-> "converted_user_modal_to_video"]
       ELSE IF Contains(host, XHSLINK_COM) THEN [url |-> u, note |-> "xhs_short_link_detected"]
       ELSE [url |-> u, note |-> "none"]

\* fetch_content._normalize_content_url: (url, note)
_normalize_content_url(u) ==
    LET parsed == urlparse(u)
        host == Lower(parsed.netloc)
        modal_id == QsFirst(parsed.query, <<"modal_id">>)
    IN IF Contains(host, DOUYIN_COM) /\ modal_id # <<>> /\ StartsWith(parsed.path, <<"/", "user", "/">>)
       THEN [url |-> <<"https", "://", "www", ".", "douyin", ".", "com", "/", "video", "/">> \o modal_id,
             note |-> "converted_user_modal_to_video"]
       ELSE IF Contains(host, XHSLINK_COM) THEN [url |-> u, note |-> "xhs_short_link_detected"]
       ELSE [url |-> u, note |-> "none"]

------------------------------------------------------------------------------
(* Cookie variants of the generic downloader *)

NoSession == [ok |-> FALSE, cookies_file |-> "none", cookies_from_browser |-> "none"]

\* fetch_content._build_cookie_args; d is the set of files that exist
_build_cookie_args(s, d) ==
    IF ~s.ok THEN <<>>
    ELSE IF s.cookies_file # "none" /\ s.cookies_file \in d THEN <<"--cookies", s.cookies_file>>
    ELSE IF s.cookies_from_browser # "none" THEN <<"--cookies-from-browser", s.cookies_from_browser>>
    ELSE <<>>

\* the `preferred` list of _cookie_arg_variants
preferred(p) ==
    IF p = "xiaohongshu" THEN <<"chrome", "chromium", "safari", "firefox">>
    ELSE <<"chrome", "chromium", "firefox", "safari">>

BrowserLabel(b) ==
    CASE b = "chrome" -> "browser:chrome"
      [] b = "chromium" -> "browser:chromium"
      [] b = "firefox" -> "browser:firefox"
      [] b = "safari" -> "browser:safari"

\* a dedup loop that forgets to skip what it has seen
dedup_keep_all(variants, seen) == variants

\* the dedup loop of _cookie_arg_variants: the first variant of each args list
RECURSIVE dedup(_, _)
dedup(variants, seen) ==
    IF variants = <<>> THEN <<>>
    ELSE IF Head(variants).args \in seen THEN dedup(Tail(variants), seen)
    ELSE <<Head(variants)>> \o dedup(Tail(variants), seen \cup {Head(variants).args})

\* fetch_content._cookie_arg_variants: a list of (label, args)
_cookie_arg_variants(s, p, d) ==
    LET session_args == _build_cookie_args(s, d)
        first == IF session_args # <<>> THEN <<[label |-> "session", args |-> session_args]>> ELSE <<>>
        browsers == [i \in 1..Len(preferred(p)) |->
                        [label |-> BrowserLabel(preferred(p)[i]),
                         args |-> <<"--cookies-from-browser", preferred(p)[i]>>]]
    IN dedup(first \o browsers \o <<[label |-> "no-cookies", args |-> <<>>]>>, {})

------------------------------------------------------------------------------
(* Failure classification *)

\* common.summarize_cmd keeps the last 2000 characters; the model keeps the
\* last STDERR_TAIL tokens
STDERR_TAIL == 2000

LastN(t, n) == IF Len(t) <= n THEN t ELSE SubSeq(t, Len(t) - n + 1, Len(t))

_looks_cookie_permission_error(text) ==
    LET t == Lower(text)
    IN \/ Contains(t, <<"cookie", "s.binary", "cookie", "s">>)
       \/ (Contains(t, <<"operation not permitted">>) /\ Contains(t, <<"cookie">>))

_looks_dns_error(text) ==
    LET t == Lower(text)
    IN \/ Contains(t, <<"nodename nor servname provided">>)
       \/ Contains(t, <<"name or service not known">>)
       \/ Contains(t, <<"temporary failure in name resolution">>)
       \/ Contains(t, <<"failed to resolve">>)

\* "\n".join(...) over the stderr_tail of the log's entries
RECURSIVE JoinStderr(_)
JoinStderr(log) ==
    IF log = <<>> THEN <<>>
    ELSE IF Len(log) = 1 THEN log[1].stderr_tail
    ELSE log[1].stderr_tail \o <<"\n">> \o JoinStderr(Tail(log))

\* the name of each (reason, next_action) pair _derive_failure_reason returns
R_TOOL_MISSING == "yt-dlp not installed"
R_DNS == "network or DNS cannot resolve the platform domain"
R_COOKIE_PERMISSION == "no permission to read browser cookies"
R_AUTH_STALE == "platform asks for fresh login cookies"
R_FORBIDDEN == "access denied (403)"
R_NOT_FOUND == "content does not exist or is offline"
R_UNKNOWN == "download failed or no analysable media recognised"

\* a classification that tests the cookie-permission pattern before the DNS one
derive_failure_reason_cookie_first(log, path) ==
    LET stderr_all == JoinStderr(log)
    IN IF "yt-dlp" \notin path THEN R_TOOL_MISSING
       ELSE IF _looks_cookie_permission_error(stderr_all) THEN R_COOKIE_PERMISSION
       ELSE IF _looks_dns_error(stderr_all) THEN R_DNS
       ELSE IF Contains(Lower(stderr_all), <<"fresh ", "cookie", "s", " are needed">>) THEN R_AUTH_STALE
       ELSE IF Contains(Lower(stderr_all), <<"http error ", "403">>)
               \/ Contains(Lower(stderr_all), <<"forbidden">>) THEN R_FORBIDDEN
       ELSE IF Contains(stderr_all, <<"404">>) THEN R_NOT_FOUND
       ELSE R_UNKNOWN

\* fetch_content._derive_failure_reason; path is what find_executable sees
_derive_failure_reason(log, path) ==
    LET stderr_all == JoinStderr(log)
    IN IF "yt-dlp" \notin path THEN R_TOOL_MISSING
       ELSE IF _looks_dns_error(stderr_all) THEN R_DNS
       ELSE IF _looks_cookie_permission_error(stderr_all) THEN R_COOKIE_PERMISSION
       ELSE IF Contains(Lower(stderr_all), <<"fresh ", "cookie", "s", " are needed">>) THEN R_AUTH_STALE
       ELSE IF Contains(Lower(stderr_all), <<"http error ", "403">>)
               \/ Contains(Lower(stderr_all), <<"forbidden">>) THEN R_FORBIDDEN
       ELSE IF Contains(stderr_all, <<"404">>) THEN R_NOT_FOUND
       ELSE R_UNKNOWN

------------------------------------------------------------------------------
(* Files *)

\* the paths of the model, in the order sorted(key=str) gives them
PathOrder == <<"download/article.html", "download/article_body.txt", "download/n.info.json",
               "download/old.mp4", "download/s.srt", "download/v.mp4",
               "download/wechat_article.info.json", "in/B.JPG", "in/a.mp3", "in/missing.mp4",
               "in/notes.md">>

\* the files an adapter can write under the download directory
DlFiles == {"download/n.info.json", "download/v.mp4"}

\* Path(p).suffix.lower()
suffix(p) ==
    CASE p = "download/n.info.json" -> ".json"
      [] p = "download/v.mp4" -> ".mp4"
      [] p = "download/article.html" -> ".html"
      [] p = "download/article_body.txt" -> ".txt"
      [] p = "download/wechat_article.info.json" -> ".json"
      [] p = "in/a.mp3" -> ".mp3"
      [] p = "in/missing.mp4" -> ".mp4"
      [] p = "download/old.mp4" -> ".mp4"
      [] p = "download/s.srt" -> ".srt"
      [] p = "in/B.JPG" -> ".jpg"
      [] p = "in/notes.md" -> ".md"
      [] OTHER -> ""

\* p.name.endswith(".info.json")
IsInfoJson(p) == p \in {"download/n.info.json", "download/wechat_article.info.json"}

VIDEO_EXTS == {".mp4", ".mov", ".mkv", ".webm", ".m4v", ".flv"}
IMAGE_EXTS == {".jpg", ".jpeg", ".png", ".webp", ".gif", ".bmp"}
AUDIO_EXTS == {".mp3", ".wav", ".m4a", ".aac", ".flac", ".ogg"}
TRANSCRIPT_EXTS == {".srt", ".vtt", ".ass", ".lrc", ".txt"}

\* sorted(S, key=str) as a list
Sorted(S) == SelectSeq(PathOrder, LAMBDA p : p \in S)

ToSet(q) == {q[i] : i \in DOMAIN q}

\* common.classify_files over a list of paths
classify_files(paths) ==
    [video |-> SelectSeq(paths, LAMBDA p : suffix(p) \in VIDEO_EXTS),
     images |-> SelectSeq(paths, LAMBDA p : suffix(p) \notin VIDEO_EXTS /\ suffix(p) \in IMAGE_EXTS),
     audio |-> SelectSeq(paths, LAMBDA p : suffix(p) \notin VIDEO_EXTS \cup IMAGE_EXTS
                                          /\ suffix(p) \in AUDIO_EXTS),
     transcript |-> SelectSeq(paths, LAMBDA p : suffix(p) \notin VIDEO_EXTS \cup IMAGE_EXTS \cup AUDIO_EXTS
                                               /\ suffix(p) \in TRANSCRIPT_EXTS),
     other |-> SelectSeq(paths, LAMBDA p : suffix(p) \notin VIDEO_EXTS \cup IMAGE_EXTS
                                                \cup AUDIO_EXTS \cup TRANSCRIPT_EXTS)]

\* fetch_content._infer_content_type
_infer_content_type(asset_index) ==
    IF asset_index.video # <<>> THEN "video"
    ELSE IF asset_index.images # <<>> THEN "image_post"
    ELSE IF asset_index.transcript # <<>> THEN "article"
    ELSE "unknown"

\* Path(raw).expanduser().resolve(): the canonical path of an argument as typed
resolve(raw) ==
    CASE raw = "./in/B.JPG" -> "in/B.JPG"
      [] raw = "download/../download/v.mp4" -> "download/v.mp4"
      [] OTHER -> raw

\* fetch_content._collect_manual_assets; exists is the set of regular files
_collect_manual_assets(a, exists) ==
    [k \in DOMAIN a |->
        SelectSeq([i \in 1..Len(a[k]) |-> resolve(a[k][i])], LAMBDA p : p \in exists)]

RECURSIVE Flatten(_)
Flatten(qq) == IF qq = <<>> THEN <<>> ELSE Head(qq) \o Flatten(Tail(qq))

\* [Path(p) for key in manual_assets for p in manual_assets[key]]
manual_paths(m) == Flatten(<<m.video, m.images, m.audio, m.transcript>>)

\* a merge that appends the manual paths to the listing of the download directory
merge_append(dl, manual) == Sorted(dl) \o manual

\* sorted(list({*all_files, *manual_paths}), key=str) (line 590)
merge_files(dl, manual) == Sorted(dl \cup ToSet(manual))

------------------------------------------------------------------------------
(* Adapters *)

\* the candidate lists of _run_xhs_specialized, _run_douyin_specialized, _run_wechat_specialized
candidates(p) ==
    CASE p = "xiaohongshu" ->
            <<"xhs-downloader", "rednote-video-assist", "rednotevideoassist", "xhsdl", "res-downloader">>
      [] p = "douyin" -> <<"douyin-downloader", "res-downloader">>
      [] p = "wechat_mp" -> <<"wechat-article-exporter", "res-downloader">>
      [] OTHER -> <<>>

adapter_name(p) ==
    CASE p = "xiaohongshu" -> "xhs-specialized"
      [] p = "douyin" -> "douyin-specialized"
      [] p = "wechat_mp" -> "wechat-specialized"
      [] OTHER -> "none"

\* one entry of the attempt log (payload of a specialized run, of _run_yt_dlp,
\* or one element of attempt_variants)
Payload(adapter, label, code, err, new, variants, error) ==
    [adapter |-> adapter, label |-> label, exit_code |-> code,
     stderr_tail |-> LastN(err, STDERR_TAIL), new_files |-> new,
     attempt_variants |-> variants, error |-> error]

\* a success test that looks at the exit code only
attempt_ok_exit_only(code, new_files) == code = 0

\* `res.code == 0 and new_files`
attempt_ok(code, new_files) == code = 0 /\ new_files # <<>>

------------------------------------------------------------------------------
(* Inputs of a run of fetch_content *)

\* most files one adapter invocation writes
MaxNewPerAttempt == 2
\* most files given to a run: those the download directory holds before it
\* and those the --input-* options name
MaxGiven == 1
\* most invocations of one run that print on stderr
MaxNoisy == 1

Https(host, rest) == <<"https", "://">> \o host \o rest

UrlInputs ==
    { Https(<<"www", ".", "douyin", ".", "com">>, <<"/", "video", "/", "7">>),
      Https(<<"www", ".", "xiaohongshu", ".", "com">>, <<"/", "explore", "/", "7">>),
      Https(<<"mp", ".", "weixin", ".", "qq", ".", "com">>, <<"/", "s", "/", "7">>),
      <<" ">> \o Https(<<"example", ".", "org">>, <<"/", "7">>) }

PathInputs ==
    { {}, {"yt-dlp"}, {"yt-dlp", "res-downloader"}, {"douyin-downloader", "res-downloader"} }

SessionInputs ==
    { NoSession,
      [ok |-> TRUE, cookies_file |-> "none", cookies_from_browser |-> "chrome"] }

DiskInputs == { {"in/a.mp3", "cookies.txt"} }

NoManual == [video |-> <<>>, images |-> <<>>, audio |-> <<>>, transcript |-> <<>>]

\* --input-audio of a file that exists, --input-video of one that does not
ManualInputs ==
    [video : {<<>>, <<"in/missing.mp4">>}, images : {<<>>}, audio : {<<>>, <<"in/a.mp3">>},
     transcript : {<<>>}]

\* what a tool can print on stderr
StderrInputs == { <<>>, <<"Name or service not known">>, <<"HTTP Error ", "403">> }

\* the files of the download directory in the runs about the asset index
AssetFiles == {"download/old.mp4", "download/s.srt", "download/v.mp4"}

AssetDisk == {"in/a.mp3", "in/B.JPG", "in/notes.md", "cookies.txt"}

\* --input-* options: a file of an extension no category has, a path typed in a
\* non-canonical form, a path into the download directory, the same file twice
AssetManualInputs ==
    { NoManual,
      [NoManual EXCEPT !.transcript = <<"in/notes.md">>],
      [NoManual EXCEPT !.images = <<"./in/B.JPG">>],
      [NoManual EXCEPT !.video = <<"download/../download/v.mp4">>],
      [NoManual EXCEPT !.audio = <<"in/a.mp3", "in/a.mp3">>] }

\* the files given to a run
Given == files \cup {resolve(p) : p \in ToSet(manual_paths(args_input))}

\* runs over every platform, PATH and session, with silent tools
BaseRuns ==
    /\ raw_url \in UrlInputs
    /\ PATH \in PathInputs
    /\ session \in SessionInputs
    /\ args_input \in ManualInputs
    /\ disk \in DiskInputs
    /\ world = [writes |-> DlFiles, says |-> {<<>>}]
    /\ files \in SUBSET DlFiles

\* runs of a specialized tool and yt-dlp that print on stderr
NoisyRuns ==
    /\ raw_url = Https(<<"www", ".", "douyin", ".", "com">>, <<"/", "video", "/", "7">>)
    /\ PATH = {"yt-dlp", "res-downloader"}
    /\ session = NoSession
    /\ args_input = NoManual
    /\ disk \in DiskInputs
    /\ world = [writes |-> {"download/v.mp4"}, says |-> StderrInputs]
    /\ files = {}

\* runs of one specialized tool over a download directory that is not empty
\* and with manual files of every kind
AssetRuns ==
    /\ raw_url = Https(<<"www", ".", "douyin", ".", "com">>, <<"/", "video", "/", "7">>)
    /\ PATH = {"res-downloader"}
    /\ session = NoSession
    /\ args_input \in AssetManualInputs
    /\ disk = AssetDisk
    /\ world = [writes |-> {"download/s.srt", "download/v.mp4"}, says |-> {<<>>}]
    /\ files \in SUBSET {"download/old.mp4", "download/v.mp4"}

\* the invocations so far that printed on stderr
Noisy(ex) == Cardinality({i \in DOMAIN ex : ex[i].stderr # <<>>})

\* what one adapter invocation can do: an exit code, files written, a stderr
Outcomes(cur) ==
    [code : {0, 1},
     made : {S \in SUBSET (world.writes \ cur) : Cardinality(S) <= MaxNewPerAttempt},
     stderr : IF Noisy(executed) < MaxNoisy THEN world.says ELSE {<<>>}]

Idle ==
    /\ url = <<>> /\ normalize_note = "none" /\ platform = "none"
    /\ manual_assets = [video |-> <<>>, images |-> <<>>, audio |-> <<>>, transcript |-> <<>>]
    /\ adapter_attempts = <<>> /\ success = FALSE /\ cand = 0 /\ before = {}
    /\ attempt_details = <<>> /\ vi = 0 /\ executed = <<>> /\ result = <<>>
    /\ exit_code = -1

Init ==
    /\ pc = "start"
    /\ (BaseRuns \/ NoisyRuns \/ AssetRuns)
    /\ Cardinality(Given) <= MaxGiven
    /\ Idle
    /\ arg = "none" /\ ret = "none"
    /\ NoPipeline

------------------------------------------------------------------------------
(* main() of fetch_content.py *)

Doc(ok, code, reason, u, p, attempts, content_type, classified, all_files) ==
    [ok |-> ok, code |-> code, reason |-> reason, url |-> Strip(raw_url),
     normalized_url |-> u, platform |-> p, attempts |-> attempts,
     content_type |-> content_type, asset_index |-> classified, all_files |-> all_files]

NoAssets == [video |-> <<>>, images |-> <<>>, audio |-> <<>>, transcript |-> <<>>]

inputs == <<raw_url, PATH, session, args_input, disk, world>>

\* a platform test that stops no run
unsupported_never(p) == FALSE

\* `if platform == "unknown"` (line 532)
unsupported(p) == p = "unknown"

\* lines 524-551: resolve the platform; unknown is a hard stop
Start ==
    /\ pc = "start"
    /\ LET n == _normalize_content_url(Strip(raw_url))
       IN /\ url' = n.url
          /\ normalize_note' = n.note
          /\ platform' = detect_platform(n.url)
    /\ IF unsupported(platform')
       THEN /\ result' = Append(result, Doc(FALSE, "UNSUPPORTED_PLATFORM", "unsupported", url', platform', <<>>,
                                            "none", NoAssets, <<>>))
            /\ exit_code' = 1
            /\ pc' = "done"
            /\ UNCHANGED <<cand, manual_assets>>
       ELSE /\ pc' = "specialized"
            /\ cand' = 1
            /\ manual_assets' = _collect_manual_assets(args_input, disk \cup files)
            /\ UNCHANGED <<result, exit_code>>
    /\ UNCHANGED <<inputs, files, adapter_attempts, success, before, attempt_details, vi,
                   executed, arg, ret, pipe_vars>>

Invocation(adapter, label, code, pre, post, new, err) ==
    [adapter |-> adapter, label |-> label, exit_code |-> code, pre |-> pre, post |-> post,
     new_files |-> new, stderr |-> err]

\* _run_*_specialized, one turn of the loop: the candidate is not installed
SpecializedSkip ==
    /\ pc = "specialized"
    /\ cand <= Len(candidates(platform))
    /\ candidates(platform)[cand] \notin PATH
    /\ cand' = cand + 1
    /\ UNCHANGED <<pc, inputs, manual_assets, url, normalize_note, platform, files, adapter_attempts, success,
                   before, attempt_details, vi, executed, result, exit_code, arg, ret, pipe_vars>>

\* _run_*_specialized, one turn of the loop: the candidate runs; only the
\* payload of a successful run is returned, and main() appends it
SpecializedRun ==
    /\ pc = "specialized"
    /\ cand <= Len(candidates(platform))
    /\ candidates(platform)[cand] \in PATH
    /\ \E o \in Outcomes(files) :
        LET after == files \cup o.made
            new_files == Sorted(after \ files)
            payload == Payload(adapter_name(platform), candidates(platform)[cand], o.code,
                               o.stderr, new_files, <<>>, "none")
        IN /\ files' = after
           /\ executed' = Append(executed, Invocation(adapter_name(platform), candidates(platform)[cand],
                                                      o.code, files, after, new_files, o.stderr))
           /\ IF attempt_ok(o.code, new_files)
              THEN /\ adapter_attempts' = Append(adapter_attempts, payload)
                   /\ success' = TRUE
                   /\ pc' = "post"
                   /\ cand' = cand
              ELSE /\ cand' = cand + 1
                   /\ UNCHANGED <<adapter_attempts, success, pc>>
    /\ UNCHANGED <<inputs, manual_assets, url, normalize_note, platform, before, attempt_details, vi,
                   result, exit_code, arg, ret, pipe_vars>>

\* _run_*_specialized returns (False, None); main() goes on to yt-dlp for
\* douyin and xiaohongshu (line 571)
SpecializedExhausted ==
    /\ pc = "specialized"
    /\ cand > Len(candidates(platform))
    /\ pc' = IF platform \in {"douyin", "xiaohongshu"} THEN "yt_dlp" ELSE "post"
    /\ UNCHANGED <<inputs, manual_assets, url, normalize_note, platform, files, adapter_attempts, success, cand,
                   before, attempt_details, vi, executed, result, exit_code, arg, ret, pipe_vars>>

\* _run_yt_dlp up to its loop (lines 170-190)
YtDlpStart ==
    /\ pc = "yt_dlp"
    /\ IF "yt-dlp" \notin PATH
       THEN /\ adapter_attempts' = Append(adapter_attempts,
                    Payload("yt-dlp", "none", -1, <<>>, <<>>, <<>>, "yt-dlp not installed"))
            /\ success' = FALSE
            /\ pc' = "post"
            /\ UNCHANGED <<before, attempt_details, vi>>
       ELSE /\ before' = files
            /\ attempt_details' = <<>>
            /\ vi' = 1
            /\ pc' = "variants"
            /\ UNCHANGED <<adapter_attempts, success>>
    /\ UNCHANGED <<inputs, manual_assets, url, normalize_note, platform, files, cand, executed, result,
                   exit_code, arg, ret, pipe_vars>>

\* the new_files _run_yt_dlp records for a variant (line 195): the files after
\* it minus the `before` snapshot taken ahead of the loop (line 174)
yt_new_files(after, snapshot) == Sorted(after \ snapshot)

\* _run_yt_dlp, one turn of the loop over the cookie variants (lines 191-219)
YtDlpVariant ==
    /\ pc = "variants"
    /\ LET variants == _cookie_arg_variants(session, platform, disk)
       IN \E o \in Outcomes(files) :
            LET after == files \cup o.made
                new_files == yt_new_files(after, before)
                detail == Payload("yt-dlp", variants[vi].label, o.code, o.stderr, new_files,
                                  <<>>, "none")
                details == Append(attempt_details, detail)
                payload == Payload("yt-dlp", variants[vi].label, o.code, o.stderr, new_files,
                                   details, "none")
            IN /\ files' = after
               /\ attempt_details' = details
               /\ executed' = Append(executed, Invocation("yt-dlp", variants[vi].label, o.code,
                                                          files, after, new_files, o.stderr))
               /\ IF attempt_ok(o.code, new_files)
                  THEN /\ adapter_attempts' = Append(adapter_attempts, payload)
                       /\ success' = TRUE
                       /\ pc' = "post"
                       /\ vi' = vi
                  ELSE IF vi = Len(variants)
                  THEN /\ adapter_attempts' = Append(adapter_attempts, payload)
                       /\ success' = FALSE
                       /\ pc' = "post"
                       /\ vi' = vi
                  ELSE /\ vi' = vi + 1
                       /\ UNCHANGED <<adapter_attempts, success, pc>>
    /\ UNCHANGED <<inputs, manual_assets, url, normalize_note, platform, cand, before, result, exit_code,
                   arg, ret, pipe_vars>>

\* what _run_wechat_html_fallback can do: urlopen raises, or the article is
\* written (article.html, article_body.txt, wechat_article.info.json)
WechatFiles == {"download/article.html", "download/article_body.txt", "download/wechat_article.info.json"}

FallbackOutcomes == IF platform = "wechat_mp" /\ ~success THEN {"raised", "fetched"} ELSE {"skipped"}

\* a metadata test that forgets the platform
metadata_success_any_platform(p, fs) == \E f \in fs : IsInfoJson(f)

\* lines 576-581: for xiaohongshu an *.info.json under the download directory counts
metadata_success(p, fs) == p = "xiaohongshu" /\ \E f \in fs : IsInfoJson(f)

\* lines 576-644: the secondary success conditions, classification, the result document
Finish ==
    /\ pc = "post"
    /\ \E fb \in FallbackOutcomes :
        LET success1 == success \/ metadata_success(platform, files)
            success2 == IF fb = "skipped" THEN success1 ELSE fb = "fetched"
            after == IF fb = "fetched" THEN files \cup WechatFiles ELSE files
            attempts == IF fb = "skipped" THEN adapter_attempts
                        ELSE Append(adapter_attempts,
                                    Payload("wechat-html-fallback", "none", IF fb = "fetched" THEN 0 ELSE 1,
                                            <<>>, Sorted(after \ files), <<>>, "none"))
            all_files == merge_files(after, manual_paths(manual_assets))
            classified == classify_files(all_files)
            content_type == _infer_content_type(classified)
        IN /\ success' = success2
           /\ adapter_attempts' = attempts
           /\ files' = after
           /\ IF ~success2 /\ content_type = "unknown"
              THEN /\ result' = Append(result, Doc(FALSE, "DOWNLOAD_FAILED",
                                                   _derive_failure_reason(attempts, PATH), url, platform, attempts,
                                                   content_type, NoAssets, <<>>))
                   /\ exit_code' = 1
              ELSE /\ result' = Append(result, Doc(TRUE, "none", "none", url, platform, attempts, content_type,
                                                   [k \in DOMAIN NoAssets |-> classified[k]], all_files))
                   /\ exit_code' = 0
    /\ pc' = "done"
    /\ UNCHANGED <<inputs, manual_assets, url, normalize_note, platform, cand, before, attempt_details,
                   vi, executed, arg, ret, pipe_vars>>

Next ==
    \/ Start
    \/ SpecializedSkip
    \/ SpecializedRun
    \/ SpecializedExhausted
    \/ YtDlpStart
    \/ YtDlpVariant
    \/ Finish

Spec == Init /\ [][Next]_vars

------------------------------------------------------------------------------
(* Single functions, each applied to inputs drawn from a bounded set *)

\* no run of fetch_content
NoFetch ==
    /\ raw_url = <<>> /\ PATH = {} /\ session = NoSession /\ args_input = NoManual
    /\ disk = {} /\ world = [writes |-> {}, says |-> {}] /\ files = {} /\ Idle

NoRun == NoFetch /\ NoPipeline

run_vars == <<raw_url, url, normalize_note, platform, PATH, session, args_input, disk, world,
              files, manual_assets, adapter_attempts, success, cand, before, attempt_details, vi,
              executed, result, exit_code>>

\* ---- _normalize_content_url, applied again and again to its own output

\* how often the normalization is applied in a row
MaxApplications == 2

UrlHosts ==
    { <<"www", ".", "douyin", ".", "com">>,
      <<"WWW", ".", "DOUYIN", ".", "COM">>,
      <<"v", ".", "ies", "douyin", ".", "com">>,
      <<"www", ".", "xiaohongshu", ".", "com">>,
      <<"xhslink", ".", "com">>,
      <<"mp", ".", "weixin", ".", "qq", ".", "com">>,
      <<"douyin", ".", "com", ".", "example", ".", "org">>,
      <<"example", ".", "org">> }

UrlPaths ==
    { <<>>, <<"/", "user", "/", "abc">>, <<"/", "video", "/", "7">>, <<"/", "user", "/">> }

UrlQueries ==
    { <<>>,
      <<"?", "modal_id", "=", "7">>,
      <<"?", "modal_id", "=">>,
      <<"?", "x", "=", "1", "&", "modal_id", "=", "7", "&", "modal_id", "=", "8">>,
      <<"?", "modal_id", "=", "%2F", "user", "%2F", "9">>,
      <<"?", "modal_id", "=", "8", "%3F", "modal_id", "%3D", "9">>,
      <<"?", "modal_id", "=", "7", "#", "frag">> }

UrlDomain ==
    { scheme \o host \o path \o query :
        scheme \in {<<"https", "://">>, <<>>}, host \in UrlHosts, path \in UrlPaths,
        query \in UrlQueries }

InitUrl ==
    /\ pc = "call"
    /\ arg \in UrlDomain
    /\ ret = <<>>
    /\ NoRun

\* ret[k] is the result of the k-th application
Normalize ==
    /\ pc = "call"
    /\ Len(ret) < MaxApplications
    /\ ret' = Append(ret, _normalize_content_url(IF ret = <<>> THEN arg ELSE ret[Len(ret)].url))
    /\ UNCHANGED <<pc, arg, run_vars, pipe_vars>>

SpecUrl == InitUrl /\ [][Normalize]_vars

\* ---- _cookie_arg_variants

CookieDomain ==
    [session : [ok : BOOLEAN, cookies_file : {"none", "cookies.txt", "gone.txt"},
                cookies_from_browser : {"none", "chrome", "safari", "edge"}],
     platform : {"douyin", "xiaohongshu"},
     exists : {{}, {"cookies.txt"}}]

InitCookie ==
    /\ pc = "call"
    /\ arg \in CookieDomain
    /\ ret = <<>>
    /\ NoRun

CookieVariants ==
    /\ pc = "call"
    /\ ret' = _cookie_arg_variants(arg.session, arg.platform, arg.exists)
    /\ pc' = "returned"
    /\ UNCHANGED <<arg, run_vars, pipe_vars>>

SpecCookie == InitCookie /\ [][CookieVariants]_vars

\* ---- _derive_failure_reason

\* most entries of an attempt log given to the classification
MaxLogLen == 2
\* most phrases the stderr texts of one attempt log hold together
MaxPhrases == 2

Phrases ==
    { <<"ERROR">>,
      <<"Name or service not known">>,
      <<"Operation not permitted">>,
      <<"Cookie", "s.binary", "cookie", "s">>,
      <<"fresh ", "cookie", "s", " are needed">>,
      <<"HTTP Error ", "403">>,
      <<"Forbidden">>,
      <<"HTTP Error ", "404">> }

RECURSIVE Texts(_)
\* the texts made of exactly n phrases
Texts(n) == IF n = 0 THEN {<<>>} ELSE {t \o p : t \in Texts(n - 1), p \in Phrases}

RECURSIVE Logs(_, _)
\* the logs of at most n entries that hold at most k phrases together
Logs(n, k) ==
    IF n = 0 THEN {<<>>}
    ELSE Logs(n - 1, k) \cup
         UNION { UNION { { <<[stderr_tail |-> t]>> \o l : l \in Logs(n - 1, k - j) } : t \in Texts(j) } :
                 j \in 0..k }

ClassifyDomain == [log : Logs(MaxLogLen, MaxPhrases), path : {{}, {"yt-dlp"}}]

InitClassify ==
    /\ pc = "call"
    /\ arg \in ClassifyDomain
    /\ ret = "none"
    /\ NoRun

Classify ==
    /\ pc = "call"
    /\ ret' = _derive_failure_reason(arg.log, arg.path)
    /\ pc' = "returned"
    /\ UNCHANGED <<arg, run_vars, pipe_vars>>

SpecClassify == InitClassify /\ [][Classify]_vars

\* ---- _derive_failure_reason, evaluated twice on one attempt log; what
\* find_executable sees is drawn anew for the second evaluation

ReclassifyDomain ==
    [log : Logs(MaxLogLen, MaxPhrases), path : {{}, {"yt-dlp"}}, path_again : {{}, {"yt-dlp"}}]

InitReclassify ==
    /\ pc = "call"
    /\ arg \in ReclassifyDomain
    /\ ret = <<>>
    /\ NoRun

Reclassify ==
    /\ pc = "call"
    /\ ret' = <<_derive_failure_reason(arg.log, arg.path),
                _derive_failure_reason(arg.log, arg.path_again)>>
    /\ pc' = "returned"
    /\ UNCHANGED <<arg, run_vars, pipe_vars>>

SpecReclassify == InitReclassify /\ [][Reclassify]_vars

------------------------------------------------------------------------------
(* main() of extract_signals.py and of analyze_content.py, each applied to  *)
(* the document of the stage before it.  A JSON object is a function from   *)
(* its keys; a file is [exists, doc].                                       *)

\* JSON null / Python None
Null == [null |-> TRUE]

\* dict.get(key, default)
Get(doc, key, default) == IF key \in DOMAIN doc THEN doc[key] ELSE default

\* common.read_json(path, default={})
read_json(f) == IF ~f.exists THEN <<>> ELSE f.doc

\* common.structured_error: the extra keys are written over the error's own
structured_error(code, extra) ==
    [ok |-> FALSE,
     error |-> extra @@ [code |-> code, reason |-> "reason", next_action |-> "next_action",
                         timestamp |-> "utc_now_iso"]]

\* an upstream test that looks for an error instead of the ok flag
not_ok_when_error(doc) == "error" \in DOMAIN doc

\* `if not fetch.get("ok")`, `if not signals.get("ok")`
not_ok(doc) == ~Get(doc, "ok", FALSE)

\* the errors a fetch result can carry
FetchErrors == { [code |-> "UNSUPPORTED_PLATFORM"], [code |-> "DOWNLOAD_FAILED"] }

\* fetch_result.json as extract_signals can find it
FetchDocs ==
    { <<>>, [ok |-> FALSE], [ok |-> TRUE] }
    \cup { [ok |-> FALSE, error |-> e] : e \in FetchErrors }
    \cup { [error |-> e] : e \in FetchErrors }
    \cup { [ok |-> TRUE,
            asset_index |-> [video |-> v, images |-> i, transcript |-> t]] :
              v \in {<<>>, <<"download/v.mp4">>}, i \in {<<>>, <<"in/B.JPG">>},
              t \in {<<>>, <<"download/s.srt">>} }

\* signals.json as analyze_content can find it
SignalsDocs ==
    { <<>>, [ok |-> FALSE], [ok |-> TRUE] }
    \cup { structured_error("UPSTREAM_FETCH_FAILED", [upstream |-> e]) : e \in FetchErrors \cup {Null} }
    \cup { [error |-> [code |-> "UPSTREAM_FETCH_FAILED", upstream |-> Null]] }

Missing == [exists |-> FALSE, doc |-> <<>>]

Files(docs) == {Missing} \cup {[exists |-> TRUE, doc |-> d] : d \in docs}

StageDomain ==
    [stage : {"extract_signals"}, upstream : Files(FetchDocs),
     on_disk : {{}, {"download/v.mp4", "in/B.JPG", "download/s.srt"}},
     api_key : {FALSE}, markdown_output : {FALSE}]
    \cup
    [stage : {"analyze_content"}, upstream : Files(SignalsDocs), on_disk : {{}},
     api_key : BOOLEAN, markdown_output : BOOLEAN]

InitStage ==
    /\ pc = "call"
    /\ arg \in StageDomain
    /\ ret = "none"
    /\ NoRun

\* the extractors main() of extract_signals calls for a usable fetch result
\* (lines 499-548): frames is what _extract_frames returned, audio whether
\* audio.wav was written, chunks whether _asr_with_openai returned any
extract_calls(fetch, on_disk, frames, audio, chunks) ==
    LET asset_index == Get(fetch, "asset_index", <<>>)
        present(key) == SelectSeq(Get(asset_index, key, <<>>), LAMBDA p : p \in on_disk)
        videos == present("video")
        images == present("images")
        transcripts == present("transcript")
    IN (IF videos = <<>> THEN <<>>
        ELSE <<"_extract_frames">> \o [i \in 1..frames |-> "_ocr_image"] \o <<"_extract_audio">>
             \o (IF ~audio THEN <<>>
                 ELSE IF chunks THEN <<"_asr_with_openai">>
                 ELSE <<"_asr_with_openai", "_asr_with_local_whisper">>))
       \o [i \in 1..Len(images) |-> "_ocr_image"]
       \o [i \in 1..Len(transcripts) |-> "_parse_subtitle_file"]
       \o <<"_extract_from_info_json", "_build_evidence_from_ocr", "_build_evidence_from_transcript">>

\* most frames _extract_frames returns
MaxFrames == 1

\* extract_signals.main
extract_signals_main ==
    /\ pc = "call" /\ arg.stage = "extract_signals"
    /\ LET fetch == read_json(arg.upstream)
       IN IF not_ok(fetch)
          THEN ret' = [doc |-> structured_error("UPSTREAM_FETCH_FAILED",
                                                [upstream |-> Get(fetch, "error", Null)]),
                       exit_code |-> 1, calls |-> <<>>]
          ELSE \E frames \in 0..MaxFrames, audio \in BOOLEAN, chunks \in BOOLEAN :
                  ret' = [doc |-> [ok |-> TRUE], exit_code |-> 0,
                          calls |-> extract_calls(fetch, arg.on_disk, frames, audio, chunks)]
    /\ pc' = "returned"
    /\ UNCHANGED <<arg, run_vars, pipe_vars>>

\* analyze_content.main; raised is whether _llm_report raised
analyze_content_main ==
    /\ pc = "call" /\ arg.stage = "analyze_content"
    /\ LET signals == read_json(arg.upstream)
       IN IF not_ok(signals)
          THEN ret' = [doc |-> structured_error("UPSTREAM_SIGNALS_FAILED",
                                                [upstream |-> Get(signals, "error", Null)]),
                       exit_code |-> 1, calls |-> <<>>]
          ELSE \E raised \in BOOLEAN :
                  ret' = [doc |-> [ok |-> TRUE], exit_code |-> 0,
                          calls |-> (IF ~arg.api_key THEN <<"_fallback_report">>
                                     ELSE IF raised THEN <<"_llm_report", "_fallback_report">>
                                     ELSE <<"_llm_report">>)
                                    \o <<"_validate_report">>
                                    \o (IF arg.markdown_output THEN <<"_render_markdown">> ELSE <<>>)]
    /\ pc' = "returned"
    /\ UNCHANGED <<arg, run_vars, pipe_vars>>

SpecStage == InitStage /\ [][extract_signals_main \/ analyze_content_main]_vars

------------------------------------------------------------------------------
(* main() of run_pipeline.py.  The output of a step is a text of which the  *)
(* model keeps the length.                                                  *)

\* _run_step keeps the last 2000 characters of stdout and of stderr
PIPELINE_TAIL == 2000

\* a tail that keeps the whole text
tail_whole(n) == n

\* the length of text[-2000:] for a text of length n
tail(n) == IF n > PIPELINE_TAIL THEN PIPELINE_TAIL ELSE n

\* raw.strip().lower() of the lines the model types
strip_lower(line) ==
    CASE line = "N" -> "n"
      [] line = " " -> ""
      [] OTHER -> line

\* a prompt whose default answer is no
RECURSIVE prompt_default_no(_)
prompt_default_no(typed) ==
    IF typed = <<>> THEN FALSE
    ELSE IF strip_lower(Head(typed)) = "" THEN FALSE
    ELSE IF strip_lower(Head(typed)) \in {"y", "yes"} THEN TRUE
    ELSE IF strip_lower(Head(typed)) \in {"n", "no"} THEN FALSE
    ELSE prompt_default_no(Tail(typed))

\* common.prompt_yes_no(default_yes=True) over the lines typed, EOF after the last
RECURSIVE prompt_yes_no(_)
prompt_yes_no(typed) ==
    IF typed = <<>> THEN TRUE
    ELSE IF strip_lower(Head(typed)) = "" THEN TRUE
    ELSE IF strip_lower(Head(typed)) \in {"y", "yes"} THEN TRUE
    ELSE IF strip_lower(Head(typed)) \in {"n", "no"} THEN FALSE
    ELSE prompt_yes_no(Tail(typed))

\* the number of times prompt_yes_no calls input()
RECURSIVE prompts(_)
prompts(typed) ==
    IF typed = <<>> THEN 1
    ELSE IF strip_lower(Head(typed)) \in {"", "y", "yes", "n", "no"} THEN 1
    ELSE 1 + prompts(Tail(typed))

SESSION_FILE == "session/session.json"

Blob == [blob |-> TRUE]

\* the command lines of the orchestrator and what they meet: non_interactive
\* is the flag or a stdin that is no terminal, typed the lines waiting on
\* stdin, session_exists whether the session file is there already,
\* error_exists whether an earlier run left its error.json in --output-dir
PipelineArgs ==
    { a \in [url : { Https(<<"www", ".", "douyin", ".", "com">>, <<"/", "video", "/", "7">>),
                     Https(<<"example", ".", "org">>, <<"/", "7">>) },
             save_artifacts : {"ask", "always", "never"},
             skip_session : BOOLEAN,
             session_exists : BOOLEAN,
             error_exists : BOOLEAN,
             non_interactive : BOOLEAN,
             typed : {<<>>, <<" ">>, <<"y">>, <<"no">>, <<"x", "N">>, <<"x">>}] :
        a.save_artifacts # "ask" => a.typed = <<>> }

\* the output directory a run finds: empty, or used by an earlier run
OutputDirAtStart(a) ==
    (IF a.session_exists THEN SESSION_FILE :> [ok |-> TRUE] ELSE <<>>)
    @@ (IF a.error_exists THEN "error.json" :> structured_error("PIPELINE_FAILED", <<>>) ELSE <<>>)

InitPipeline ==
    /\ pc = "pipeline"
    /\ arg \in PipelineArgs
    /\ ret = "none"
    /\ NoFetch
    /\ run_meta = <<>>
    /\ out_dir = OutputDirAtStart(arg)
    /\ launched = <<>> /\ written = <<>> /\ pipeline_exit = -1

\* lines 125-156: the platform test, the retention mode, run_meta
pipeline_start ==
    /\ pc = "pipeline"
    /\ LET p == detect_platform(arg.url)
           save_artifacts ==
               IF arg.save_artifacts # "ask" THEN arg.save_artifacts
               ELSE IF arg.non_interactive THEN "always"
               ELSE IF prompt_yes_no(arg.typed) THEN "always" ELSE "never"
           asked == IF arg.save_artifacts = "ask" /\ ~arg.non_interactive
                    THEN prompts(arg.typed) ELSE 0
       IN IF p = "unknown"
          THEN /\ pipeline_exit' = 1
               /\ pc' = "pipeline_done"
               /\ ret' = [prompts |-> 0]
               /\ UNCHANGED run_meta
          ELSE /\ run_meta' = [url |-> arg.url, platform |-> p, save_artifacts |-> save_artifacts,
                               non_interactive |-> arg.non_interactive, steps |-> <<>>]
               /\ ret' = [prompts |-> asked]
               /\ pc' = "session_bootstrap"
               /\ UNCHANGED pipeline_exit
    /\ UNCHANGED <<arg, run_vars, out_dir, launched, written>>

\* the file a step writes its result document to
ResultFile(step) ==
    CASE step = "session_bootstrap" -> SESSION_FILE
      [] step = "fetch_content" -> "fetch_result.json"
      [] step = "extract_signals" -> "signals.json"
      [] step = "analyze_content" -> "report.json"

\* what a step that returns 0 leaves under the output directory
SuccessFiles(step) ==
    CASE step = "session_bootstrap" -> SESSION_FILE :> [ok |-> TRUE]
      [] step = "fetch_content" -> ("fetch_result.json" :> [ok |-> TRUE]) @@ ("download/v.mp4" :> Blob)
      [] step = "extract_signals" ->
            ("signals.json" :> [ok |-> TRUE]) @@ ("frames/frame_001.jpg" :> Blob) @@ ("audio.wav" :> Blob)
      [] step = "analyze_content" -> ("report.json" :> [meta |-> "report"]) @@ ("report.md" :> Blob)

\* the StructuredError codes a step of the orchestrator can return 1 with
FailureCodes(step) ==
    CASE step = "session_bootstrap" ->
            IF arg.non_interactive THEN {} ELSE {"INTERACTIVE_INPUT_UNAVAILABLE", "INVALID_COOKIE_FILE"}
      [] step = "fetch_content" -> {"DOWNLOAD_FAILED"}
      [] OTHER -> {}

\* exit codes of a step that ends without a result document: an uncaught
\* exception, a signal
CrashCodes == {1, -9}

\* lengths of (stdout, stderr)
Outputs == { [stdout |-> 40, stderr |-> 0], [stdout |-> 2001, stderr |-> 2000],
             [stdout |-> 0, stderr |-> 2500] }

\* what subprocess.run of a step can return and leave on disk
StepOutcomes(step) ==
    LET ends == { [exit_code |-> 0, files |-> SuccessFiles(step)] }
                \cup { [exit_code |-> 1, files |-> ResultFile(step) :> structured_error(c, <<>>)] :
                         c \in FailureCodes(step) }
                \cup { [exit_code |-> c, files |-> <<>>] : c \in CrashCodes }
    IN { [exit_code |-> e.exit_code, files |-> e.files, stdout |-> t.stdout, stderr |-> t.stderr] :
           e \in ends, t \in Outputs }

\* a test that takes exit code 1 for the only failure
step_failed_on_one(code) == code = 1

\* `if proc.returncode != 0` (line 55)
step_failed(code) == code # 0

\* _run_step (lines 43-56) with the handler of main() (lines 262-277) when it raises
_run_step(step, next) ==
    \E o \in StepOutcomes(step) :
        LET entry == [step |-> step, exit_code |-> o.exit_code,
                      stdout_tail |-> tail(o.stdout), stderr_tail |-> tail(o.stderr)]
            meta == [run_meta EXCEPT !.steps = Append(@, entry)]
            after == o.files @@ out_dir
            err == structured_error("PIPELINE_FAILED", [reason |-> [failed_step |-> step],
                                                        output_dir |-> "output_dir"])
            failed == [ok |-> FALSE, error_file |-> "error.json",
                       error |-> [failed_step |-> step]] @@ meta
        IN /\ launched' = Append(launched, [step |-> step, exit_code |-> o.exit_code, files |-> o.files,
                                            stdout |-> o.stdout, stderr |-> o.stderr])
           /\ IF step_failed(o.exit_code)
              THEN /\ run_meta' = failed
                   /\ out_dir' = ("run_meta.json" :> failed) @@ ("error.json" :> err) @@ after
                   /\ written' = written \o <<[file |-> "error.json", doc |-> err],
                                              [file |-> "run_meta.json", doc |-> failed]>>
                   /\ pipeline_exit' = 1
                   /\ pc' = "pipeline_done"
              ELSE /\ run_meta' = meta
                   /\ out_dir' = after
                   /\ pc' = next
                   /\ UNCHANGED <<written, pipeline_exit>>

\* lines 166: the session step is skipped
session_skip ==
    /\ pc = "session_bootstrap"
    /\ arg.skip_session \/ SESSION_FILE \in DOMAIN out_dir
    /\ pc' = "fetch_content"
    /\ UNCHANGED <<arg, ret, run_vars, pipe_vars>>

\* lines 166-187
session_bootstrap ==
    /\ pc = "session_bootstrap"
    /\ ~arg.skip_session /\ SESSION_FILE \notin DOMAIN out_dir
    /\ _run_step("session_bootstrap", "fetch_content")
    /\ UNCHANGED <<arg, ret, run_vars>>

\* lines 189-207
fetch_content ==
    /\ pc = "fetch_content"
    /\ _run_step("fetch_content", "extract_signals")
    /\ UNCHANGED <<arg, ret, run_vars>>

\* lines 209-223
extract_signals ==
    /\ pc = "extract_signals"
    /\ _run_step("extract_signals", "analyze_content")
    /\ UNCHANGED <<arg, ret, run_vars>>

\* lines 225-242
analyze_content ==
    /\ pc = "analyze_content"
    /\ _run_step("analyze_content", "wrap_up")
    /\ UNCHANGED <<arg, ret, run_vars>>

\* path.name
basename(p) ==
    CASE p = SESSION_FILE -> "session.json"
      [] p = "download/v.mp4" -> "v.mp4"
      [] p = "frames/frame_001.jpg" -> "frame_001.jpg"
      [] OTHER -> p

keep_names == {"report.json", "report.md", "run_meta.json", "error.json"}

\* _cleanup_for_never: every file whose name is not in keep_names is unlinked
_cleanup_for_never(dir) ==
    [p \in {q \in DOMAIN dir : basename(q) \in keep_names} |-> dir[p]]

\* lines 244-260: the retention policy, the exported copies, run_meta.json
wrap_up ==
    /\ pc = "wrap_up"
    /\ LET kept == IF run_meta.save_artifacts = "never" THEN _cleanup_for_never(out_dir) ELSE out_dir
           meta == [ok |-> TRUE, named_outputs |-> [json |-> "named.json", markdown |-> "named.md"]]
                   @@ run_meta
       IN /\ run_meta' = meta
          /\ out_dir' = ("run_meta.json" :> meta) @@ kept
          /\ written' = Append(written, [file |-> "run_meta.json", doc |-> meta])
    /\ pipeline_exit' = 0
    /\ pc' = "pipeline_done"
    /\ UNCHANGED <<arg, ret, run_vars, launched>>

NextPipeline ==
    \/ pipeline_start
    \/ session_skip
    \/ session_bootstrap
    \/ fetch_content
    \/ extract_signals
    \/ analyze_content
    \/ wrap_up

SpecPipeline == InitPipeline /\ [][NextPipeline]_vars

------------------------------------------------------------------------------
(* _normalize_evidence of analyze_content.py.  A JSON value is a record    *)
(* with its Python type t; a string is the first v characters of the text  *)
(* named s; a number is v tenths.                                           *)

ALLOWED_EVIDENCE_TYPES == {"timestamp", "frame_ocr", "transcript_span", "cover_ocr", "visual_pattern"}

\* the length of the texts of the model
TextLen(id) ==
    CASE id = "" -> 0
      [] id = "0" -> 1
      [] id = "0.7" -> 3
      [] id = "high" -> 4
      [] id = "None" -> 4
      [] id = "quote" -> 5
      [] id = "S5" -> 5
      [] id = "S121" -> 121
      [] id = "S201" -> 201
      [] id = "S301" -> 301
      [] id = "timestamp" -> 9
      [] id = "frame_ocr" -> 9
      [] id = "transcript_span" -> 15
      [] id = "cover_ocr" -> 9
      [] id = "visual_pattern" -> 14
      [] OTHER -> 2

JStr(id, n) == [t |-> "str", s |-> id, v |-> n]
Text(id) == JStr(id, TextLen(id))
JNum(n) == [t |-> "num", s |-> "", v |-> n]
JNull == [t |-> "null", s |-> "", v |-> 0]
JBool(b) == [t |-> "bool", s |-> "", v |-> IF b THEN 1 ELSE 0]
\* a list of n values, as the value of a key
JList(n) == [t |-> "list", s |-> "", v |-> n]
\* an object with the keys and values of f
Obj(f) == [t |-> "dict", s |-> "", v |-> 0, fields |-> f]
\* the list of the elements of seq
Items(seq) == [t |-> "list", s |-> "", v |-> Len(seq), elems |-> seq]
Raise(exc) == [t |-> "raise", s |-> exc, v |-> 0]

\* item.get(key, default)
item_get(item, key, default) == IF key \in DOMAIN item.fields THEN item.fields[key] ELSE default

\* str(x)
py_str(x) ==
    CASE x.t = "str" -> x
      [] x.t = "null" -> Text("None")
      [] OTHER -> Text("[]")

\* x[:k] of a string
slice(x, k) == [x EXCEPT !.v = IF @ > k THEN k ELSE @]

\* bool(x)
truthy(x) ==
    CASE x.t = "null" -> FALSE
      [] x.t = "num" -> x.v # 0
      [] OTHER -> x.v > 0

\* the texts float() parses, with their value in tenths
NumericTexts == {"0", "0.7"}
parse_float(id) == IF id = "0" THEN 0 ELSE 7

\* float(x): the number, or the exception raised
py_float(x) ==
    CASE x.t = "num" -> x
      [] x.t = "bool" -> JNum(10 * x.v)
      [] x.t = "str" -> IF x.s \in NumericTexts /\ x.v = TextLen(x.s)
                        THEN JNum(parse_float(x.s)) ELSE Raise("ValueError")
      [] OTHER -> Raise("TypeError")

\* 0.5
DEFAULT_CONFIDENCE == 5

\* float(item.get("confidence", 0.5) or 0.5)
confidence_of(item) ==
    LET c == item_get(item, "confidence", JNum(DEFAULT_CONFIDENCE))
    IN py_float(IF truthy(c) THEN c ELSE JNum(DEFAULT_CONFIDENCE))

\* `etype not in ALLOWED_EVIDENCE_TYPES` hashes etype
type_raises(item) == item_get(item, "type", JNull).t \in {"list", "dict"}

etype_of(item) ==
    LET etype == item_get(item, "type", JNull)
    IN IF etype.t = "str" /\ etype.s \in ALLOWED_EVIDENCE_TYPES /\ etype.v = TextLen(etype.s)
       THEN etype ELSE Text("transcript_span")

EVIDENCE_KEYS == {"type", "source", "locator", "snippet", "confidence"}

\* the object appended for a dict item (lines 45-53)
normalized_item(item) ==
    Obj([k \in EVIDENCE_KEYS |->
           CASE k = "type" -> etype_of(item)
             [] k = "source" -> slice(py_str(item_get(item, "source", Text(""))), 300)
             [] k = "locator" -> slice(py_str(item_get(item, "locator", Text(""))), 120)
             [] k = "snippet" -> slice(py_str(item_get(item, "snippet", Text(""))), 200)
             [] k = "confidence" -> confidence_of(item)])

\* the dict items of a list, in order
dict_items(items) == SelectSeq(items.elems, LAMBDA e : e.t = "dict")

\* _normalize_evidence (lines 35-54): the list returned or the exception
_normalize_evidence(items) ==
    IF items.t # "list" THEN Items(<<>>)
    ELSE LET objs == dict_items(items)
             bad == { i \in DOMAIN objs : type_raises(objs[i]) \/ confidence_of(objs[i]).t = "raise" }
             first == CHOOSE i \in bad : \A j \in bad : i <= j
         IN IF bad # {}
            THEN (IF type_raises(objs[first]) THEN Raise("TypeError") ELSE confidence_of(objs[first]))
            ELSE Items([i \in DOMAIN objs |-> normalized_item(objs[i])])

\* the longest list of the inputs
MaxEvidence == 2

TypeInputs == {Text("frame_ocr"), Text("quote"), JNum(3), JList(1)}
SourceInputs == {Text("S5"), Text("S301"), JNull}
ConfidenceInputs == {JNull, JNum(0), JNum(7), JNum(10), JNum(15), JNum(-2),
                     Text("0"), Text("0.7"), Text("high"), Text(""), JBool(TRUE), JBool(FALSE), JList(1)}

\* a key that is missing
Absent == [t |-> "absent", s |-> "", v |-> 0]

\* the object with the keys of r that are not Absent
MakeObj(r) == Obj([k \in {k \in DOMAIN r : r[k].t # "absent"} |-> r[k]])

\* every combination of the values of the five keys
SingleObjects ==
    { MakeObj(r) : r \in [type : TypeInputs \cup {Absent},
                          source : SourceInputs \cup {Absent},
                          locator : {Text("S5"), Text("S121")},
                          snippet : {Text("S5"), Text("S201"), Absent},
                          confidence : ConfidenceInputs \cup {Absent}] }

\* the elements of the longer lists: objects and values that are no objects
ListElements ==
    { MakeObj([type |-> Text("frame_ocr"), source |-> Text("S5"), confidence |-> JNum(7)]),
      MakeObj([type |-> Text("quote"), source |-> Text("S301"), confidence |-> Text("0")]),
      MakeObj([type |-> Absent, source |-> JNull, confidence |-> Text("high")]),
      Obj(<<>>), Text("S5"), JNum(3), JNull }

SeqsUpTo(S, n) == UNION { [1..k -> S] : k \in 0..n }

EvidenceInputs ==
    { Items(<<o>>) : o \in SingleObjects }
    \cup { Items(q) : q \in SeqsUpTo(ListElements, MaxEvidence) }
    \cup { Text("S5"), JNull, JNum(3), Obj(<<>>) }

InitEvidence ==
    /\ pc = "call"
    /\ arg \in EvidenceInputs
    /\ ret = "none"
    /\ NoRun

\* _normalize_evidence(x), and _normalize_evidence of what it returned
normalize_evidence ==
    /\ pc = "call"
    /\ LET once == _normalize_evidence(arg)
       IN ret' = [once |-> once,
                  twice |-> IF once.t = "raise" THEN once ELSE _normalize_evidence(once)]
    /\ pc' = "returned"
    /\ UNCHANGED <<arg, run_vars, pipe_vars>>

SpecEvidence == InitEvidence /\ [][normalize_evidence]_vars

------------------------------------------------------------------------------
(* main() of extract_signals.py for a usable fetch result (lines 499-604).  *)
(* A confidence is a number of hundredths.                                  *)

Min(x, y) == IF x < y THEN x ELSE y
Max(x, y) == IF x > y THEN x ELSE y
Take(seq, n) == SubSeq(seq, 1, Min(n, Len(seq)))
Map(seq, F(_)) == [i \in DOMAIN seq |-> F(seq[i])]

\* what an image shows: nothing, a sentence, punctuation, a number
ImageKinds == {"blank", "words", "symbols", "digits"}

\* len(text) and the count of ch.isalnum() of the text an image shows
OcrTextLen(kind) ==
    CASE kind = "words" -> 130 [] kind = "symbols" -> 10 [] kind = "digits" -> 4 [] OTHER -> 0
OcrAlnum(kind) ==
    CASE kind = "words" -> 120 [] kind = "symbols" -> 1 [] kind = "digits" -> 4 [] OTHER -> 0

\* a confidence that is the ratio itself
ratio_confidence(ratio) == ratio

\* min(0.95, max(0.25, ratio)) (line 265)
clamp_confidence(ratio) == Min(95, Max(25, ratio))

\* _ocr_image (lines 227-267) for an image of a kind: the text, the
\* confidence and the engines it reached for
_ocr_image(a, kind) ==
    LET engine == IF a.primary = "unavailable" THEN <<>> ELSE <<"rapidocr">>
        n == OcrTextLen(kind)
    IN IF a.primary = "text" /\ kind # "blank"
       THEN [text |-> kind, conf |-> a.score, calls |-> engine]
       ELSE IF a.tesseract = "missing"
       THEN [text |-> "", conf |-> 0, calls |-> engine \o <<"find_tesseract">>]
       ELSE IF a.tesseract = "fails" \/ kind = "blank"
       THEN [text |-> "", conf |-> 0, calls |-> engine \o <<"find_tesseract", "tesseract">>]
       ELSE [text |-> kind, conf |-> clamp_confidence((OcrAlnum(kind) * 100) \div n),
             calls |-> engine \o <<"find_tesseract", "tesseract">>]

\* the loops of lines 517-527 and 542-553 over the frames or the images
ocr_runs(a, imgs, where) ==
    [i \in DOMAIN imgs |-> [where |-> where, idx |-> i - 1, kind |-> imgs[i],
                            r |-> _ocr_image(a, imgs[i])]]

\* the text "frame:3", "line:3", "field:title": a word and a number or name
Locator(word, idx, n) == [t |-> "str", s |-> word, v |-> n, idx |-> idx]

\* "frame" in source: the frames are frame_dir / "frame_...", a still image has
\* the path the download or the user gave it
has_frame_word(source) == source.s \in {"frame", "freeze_frame"}

ocr_hit(a, run) ==
    [source |-> JStr(IF run.where = "frame" THEN "frame" ELSE a.image_name, a.path_len), locator |-> Locator(run.where, run.idx, 8),
     text |-> run.r.text, confidence |-> run.r.conf, idx |-> run.idx]

\* the pieces re.split cuts the text of the cloud service into
CloudPieces == <<"s1", "", "s2">>
\* the texts of the segments of the local model
LocalSegments == <<"", "g1", "g2">>

speech_chunk(text, line, timed, engine) ==
    [start |-> timed, text_len |-> 20, text |-> text, source |-> "audio.wav", line |-> line,
     engine |-> engine]

\* _asr_with_openai (lines 270-311): the chunks and whether the service was called
_asr_with_openai(a) ==
    IF ~a.sdk \/ ~a.api_key THEN [chunks |-> <<>>, calls |-> <<>>]
    ELSE [calls |-> <<"openai_api">>,
          chunks |-> IF a.cloud # "text" THEN <<>>
                     ELSE LET all == [i \in DOMAIN CloudPieces |->
                                        speech_chunk(CloudPieces[i], i, FALSE, "cloud")]
                          IN SelectSeq(all, LAMBDA c : c.text # "")]

\* _asr_with_local_whisper (lines 324-359); idx counts the segments kept
_asr_with_local_whisper(a) ==
    [calls |-> <<"local_whisper">>,
     chunks |-> IF a.local # "segments" THEN <<>>
                ELSE LET kept == SelectSeq(LocalSegments, LAMBDA t : t # "")
                     IN [i \in DOMAIN kept |-> speech_chunk(kept[i], i, TRUE, "local")]]

\* a cascade that asks both engines
asr_both(a) ==
    LET cloud == _asr_with_openai(a)
        local == _asr_with_local_whisper(a)
    IN [chunks |-> cloud.chunks \o local.chunks, calls |-> cloud.calls \o local.calls]

\* lines 532-540: the cloud service, then the local model if it gave no chunk
asr_cascade(a) ==
    LET cloud == _asr_with_openai(a)
        local == _asr_with_local_whisper(a)
    IN IF cloud.chunks # <<>> THEN cloud
       ELSE [chunks |-> local.chunks, calls |-> cloud.calls \o local.calls]

\* _parse_subtitle_file for a file of n text lines
_parse_subtitle_file(n) ==
    [i \in 1..n |-> [start |-> FALSE, text_len |-> 20, text |-> "sub", source |-> "s.srt",
                     line |-> i, engine |-> "subtitle"]]

\* the sidecar documents: no field, a title, or title, description and tags
DocKinds == {"empty", "titled", "full"}

meta_chunk(i, line) ==
    [start |-> FALSE, text_len |-> 20, text |-> "meta", source |-> "n.info.json", line |-> line,
     engine |-> "meta"]

meta_item(a, type, conf) ==
    [type |-> type, source |-> JStr("info", a.path_len), locator |-> Locator("field", 0, 17),
     snippet |-> JStr("meta", 20), confidence |-> conf]

\* _extract_from_info_json (lines 395-479): chunks and evidence of the documents
RECURSIVE _extract_from_info_json(_, _, _)
_extract_from_info_json(a, docs, i) ==
    IF i > Len(docs) THEN [chunks |-> <<>>, evidence |-> <<>>]
    ELSE LET rest == _extract_from_info_json(a, docs, i + 1)
             title == docs[i] # "empty"
             more == docs[i] = "full"
         IN [chunks |-> (IF title THEN <<meta_chunk(i, 1)>> ELSE <<>>)
                        \o (IF more THEN <<meta_chunk(i, 2), meta_chunk(i, 3)>> ELSE <<>>)
                        \o rest.chunks,
             evidence |-> (IF title THEN <<meta_item(a, "cover_ocr", 62)>> ELSE <<>>)
                          \o (IF more THEN <<meta_item(a, "transcript_span", 55),
                                             meta_item(a, "visual_pattern", 50)>> ELSE <<>>)
                          \o rest.evidence]

\* max_items of the two builders (lines 362, 377)
MAX_ITEMS == 10

\* a builder that takes every hit
take_all(seq, n) == seq

\* ocr_hits[:max_items], chunks[:max_items]
take_items(seq, n) == Take(seq, n)

\* _build_evidence_from_ocr (lines 362-374)
_build_evidence_from_ocr(ocr_hits) ==
    Map(take_items(ocr_hits, MAX_ITEMS),
        LAMBDA hit : [type |-> IF has_frame_word(hit.source) THEN "frame_ocr" ELSE "cover_ocr",
                      source |-> hit.source, locator |-> hit.locator,
                      snippet |-> slice(JStr(hit.text, OcrTextLen(hit.text)), 120),
                      confidence |-> hit.confidence])

\* _build_evidence_from_transcript (lines 377-392)
_build_evidence_from_transcript(a, chunks) ==
    Map(take_items(chunks, MAX_ITEMS),
        LAMBDA c : [type |-> IF c.start THEN "timestamp" ELSE "transcript_span",
                    source |-> JStr(c.engine, a.path_len),
                    locator |-> IF c.start THEN Locator("span", c.line, 12)
                                           ELSE Locator("line", c.line, 7),
                    snippet |-> slice(JStr(c.text, c.text_len), 120),
                    confidence |-> 70])

NO_TRANSCRIPT == "no_transcript"
NO_OCR == "no_ocr"

\* an advisory list that is the same for every result
limitations_fixed(transcript_chunks, ocr_hits) == <<"quality", "first_download">>

\* lines 567-577
limitations_of(transcript_chunks, ocr_hits) ==
    (IF transcript_chunks = <<>> THEN <<NO_TRANSCRIPT>> ELSE <<>>)
    \o (IF ocr_hits = <<>> THEN <<NO_OCR>> ELSE <<>>)
    \o <<"quality", "first_download">>

\* lines 499-604: the document main() writes and the engines it reached for
signals_payload(a) ==
    LET frame_runs == IF a.video THEN ocr_runs(a, a.frames, "frame") ELSE <<>>
        image_runs == ocr_runs(a, Take(a.images, 10), "image")
        runs == frame_runs \o image_runs
        ocr_hits == Map(SelectSeq(runs, LAMBDA run : run.r.text # ""), LAMBDA run : ocr_hit(a, run))
        asr == IF a.video /\ a.audio THEN asr_cascade(a) ELSE [chunks |-> <<>>, calls |-> <<>>]
        meta == _extract_from_info_json(a, a.info, 1)
        transcript_chunks == asr.chunks \o _parse_subtitle_file(a.subtitles) \o meta.chunks
        from_ocr == _build_evidence_from_ocr(ocr_hits)
        from_transcript == _build_evidence_from_transcript(a, transcript_chunks)
    IN [ok |-> TRUE,
        ocr_hits |-> ocr_hits,
        transcript_chunks |-> transcript_chunks,
        evidence_pool |-> from_ocr \o from_transcript \o meta.evidence,
        limitations |-> limitations_of(transcript_chunks, ocr_hits),
        pool_sizes |-> [ocr |-> Len(from_ocr), transcript |-> Len(from_transcript),
                        meta |-> Len(meta.evidence)],
        ocr_runs |-> runs,
        asr_calls |-> asr.calls]

\* the most images, and the most sidecar documents, of an input
MaxImages == 2
MaxInfoJson == 4

\* no asset, no engine
NoSignals ==
    [video |-> FALSE, frames |-> <<>>, images |-> <<>>, path_len |-> 40,
     primary |-> "unavailable", score |-> 88, tesseract |-> "missing",
     audio |-> FALSE, sdk |-> FALSE, api_key |-> FALSE, cloud |-> "fails", local |-> "fails",
     subtitles |-> 0, info |-> <<>>, image_name |-> "image"]

\* a picture post, a video's frames: every state of the two OCR engines
OcrInputs ==
    { [NoSignals EXCEPT !.video = v, !.frames = f, !.images = im, !.path_len = n,
                        !.primary = p, !.tesseract = t] :
        v \in BOOLEAN, f \in {<<>>, <<"digits">>}, im \in SeqsUpTo(ImageKinds, MaxImages),
        n \in {40, 301}, p \in {"unavailable", "raises", "empty", "text"},
        t \in {"missing", "fails", "works"} }

\* a video: every state of the two speech engines
AsrInputs ==
    { [NoSignals EXCEPT !.video = TRUE, !.frames = <<"words">>, !.tesseract = "works",
                        !.audio = au, !.sdk = sdk, !.api_key = key, !.cloud = c, !.local = l,
                        !.subtitles = n] :
        au \in BOOLEAN, sdk \in BOOLEAN, key \in BOOLEAN, c \in {"fails", "empty", "text"},
        l \in {"fails", "none", "segments"}, n \in {0, 1} }

\* many frames, images, subtitle lines and sidecar documents
PoolInputs ==
    { [NoSignals EXCEPT !.video = v, !.frames = [i \in 1..9 |-> "words"], !.primary = p,
                        !.tesseract = "works", !.images = im, !.subtitles = n, !.info = docs] :
        v \in BOOLEAN, p \in {"unavailable", "text"},
        im \in {<<>>, [i \in 1..2 |-> "digits"], [i \in 1..12 |-> "digits"]},
        n \in {0, 12}, docs \in SeqsUpTo(DocKinds, MaxInfoJson) }

\* still images stored under either name, with or without a video's frame
NamedInputs ==
    { [NoSignals EXCEPT !.video = v, !.frames = <<"words">>, !.images = im, !.image_name = nm,
                        !.primary = "text"] :
        v \in BOOLEAN, im \in {<<"words">>, <<"words", "digits">>},
        nm \in {"image", "freeze_frame"} }

SignalsInputs == OcrInputs \cup AsrInputs \cup PoolInputs \cup NamedInputs

InitSignals ==
    /\ pc = "call"
    /\ arg \in SignalsInputs
    /\ ret = "none"
    /\ NoRun

\* main() of extract_signals.py from line 499 on
extract_signals_ok ==
    /\ pc = "call"
    /\ ret' = signals_payload(arg)
    /\ pc' = "returned"
    /\ UNCHANGED <<arg, run_vars, pipe_vars>>

SpecSignals == InitSignals /\ [][extract_signals_ok]_vars

------------------------------------------------------------------------------
(* The external processes of a run, one after another: common.run_cmd and  *)
(* subprocess.run of _run_step wait for the child with the timeout the      *)
(* caller passes.                                                           *)

NoTimeout == "None"

\* the places that start a process
Callers == {"adapter", "yt-dlp", "ffmpeg", "tesseract", "step"}

\* the timeout argument at each of them: none passes one, so run_cmd's
\* default None and subprocess.run's default None apply
timeout_of(caller) ==
    CASE caller = "adapter" -> NoTimeout
      [] caller = "yt-dlp" -> NoTimeout
      [] caller = "ffmpeg" -> NoTimeout
      [] caller = "tesseract" -> NoTimeout
      [] caller = "step" -> NoTimeout

\* what a child does: it exits with a code, or it never exits
HANGS == "hangs"
ChildBehaviours == {"exit_0", "exit_1", HANGS}

\* the number of processes of a run
MaxCalls == 2

TimeoutInputs ==
    UNION { [1..n -> [caller : Callers, child : ChildBehaviours]] : n \in 1..MaxCalls }

InitTimeout ==
    /\ pc = "call"
    /\ arg \in TimeoutInputs
    /\ ret = [done |-> 0, log |-> <<>>]
    /\ NoRun

\* subprocess.run(argv, ..., timeout=timeout) starts the next child
run_cmd_start ==
    /\ pc = "call"
    /\ ret.done < Len(arg)
    /\ pc' = "waiting"
    /\ UNCHANGED <<arg, ret, run_vars, pipe_vars>>

\* subprocess.run returns when the child exits, or raises TimeoutExpired when
\* a timeout was given; with timeout None it waits for the child
run_cmd_wait ==
    /\ pc = "waiting"
    /\ LET call == arg[ret.done + 1]
       IN /\ call.child # HANGS \/ timeout_of(call.caller) # NoTimeout
          /\ ret' = [done |-> ret.done + 1,
                     log |-> Append(ret.log, IF call.child = HANGS THEN "TimeoutExpired"
                                             ELSE "exited")]
    /\ pc' = "call"
    /\ UNCHANGED <<arg, run_vars, pipe_vars>>

\* the result document is written after the last process
run_cmd_finish ==
    /\ pc = "call"
    /\ ret.done = Len(arg)
    /\ pc' = "returned"
    /\ UNCHANGED <<arg, ret, run_vars, pipe_vars>>

NextTimeout == run_cmd_start \/ run_cmd_wait \/ run_cmd_finish

SpecTimeout == InitTimeout /\ [][NextTimeout]_vars /\ WF_vars(NextTimeout)

------------------------------------------------------------------------------
(* How a run of a stage ends: the document it writes and its exit code, or  *)
(* an exception that leaves main().                                         *)

\* what the path of an input file holds: no file, a JSON object with ok true
\* or ok false, a JSON array, or a text that is no JSON
FileKinds == {"missing", "ok", "failed", "array", "invalid"}

\* read_json followed by the first .get of main(): the object, or the
\* exception json.loads or .get raises
read_input(kind) ==
    CASE kind = "missing" -> [raised |-> "", doc |-> <<>>]
      [] kind = "ok" -> [raised |-> "", doc |-> [ok |-> TRUE]]
      [] kind = "failed" -> [raised |-> "", doc |-> structured_error("UPSTREAM", <<>>)]
      [] kind = "array" -> [raised |-> "AttributeError", doc |-> <<>>]
      [] kind = "invalid" -> [raised |-> "JSONDecodeError", doc |-> <<>>]

\* the runs of the three stages; the session file of fetch_content is an
\* object when it is JSON
ExitInputs ==
    [stage : {"fetch_content"}, known : BOOLEAN, input : (FileKinds \ {"array"}) \cup {"none"},
     works : BOOLEAN, result_file : BOOLEAN]
    \cup [stage : {"extract_signals", "analyze_content"}, known : {TRUE}, input : FileKinds,
          works : BOOLEAN, result_file : BOOLEAN]

InitExit ==
    /\ pc = "call"
    /\ arg \in ExitInputs
    /\ ret = [exit_code |-> -1, written |-> <<>>, doc |-> <<>>]
    /\ NoRun

\* an exception that leaves main(): the interpreter prints the traceback and
\* exits with 1
uncaught(r) == [r EXCEPT !.exit_code = 1]

\* the start of a main(): fetch_content tests the platform and reads the
\* session file (lines 523-546), the other two read the upstream document
stage_start ==
    /\ pc = "call"
    /\ IF arg.stage = "fetch_content" /\ ~arg.known
       THEN /\ ret' = [exit_code |-> 1, doc |-> <<>>,
                       written |-> <<structured_error("UNSUPPORTED_PLATFORM", <<>>)>>]
            /\ pc' = "returned"
       ELSE LET input == IF arg.input = "none" THEN [raised |-> "", doc |-> <<>>]
                         ELSE read_input(arg.input)
            IN IF input.raised # ""
               THEN ret' = uncaught(ret) /\ pc' = "returned"
               ELSE ret' = [ret EXCEPT !.doc = input.doc] /\ pc' = "work"
    /\ UNCHANGED <<arg, run_vars, pipe_vars>>

\* the rest of a main(): fetch_content downloads and writes the result or
\* DOWNLOAD_FAILED; the other two test the ok flag
stage_work ==
    /\ pc = "work"
    /\ IF arg.stage = "fetch_content"
       THEN IF arg.works
            THEN ret' = [ret EXCEPT !.exit_code = 0, !.written = <<[ok |-> TRUE]>>]
            ELSE ret' = [ret EXCEPT !.exit_code = 1,
                                    !.written = <<structured_error("DOWNLOAD_FAILED", <<>>)>>]
       ELSE IF not_ok(ret.doc)
            THEN ret' = [ret EXCEPT !.exit_code = 1,
                           !.written = <<structured_error(
                               IF arg.stage = "extract_signals" THEN "UPSTREAM_FETCH_FAILED"
                               ELSE "UPSTREAM_SIGNALS_FAILED",
                               [upstream |-> Get(ret.doc, "error", Null)])>>]
            ELSE ret' = [ret EXCEPT !.exit_code = 0, !.written = <<[ok |-> TRUE]>>]
    /\ pc' = "returned"
    /\ UNCHANGED <<arg, run_vars, pipe_vars>>

NextExit == stage_start \/ stage_work

SpecExit == InitExit /\ [][NextExit]_vars

------------------------------------------------------------------------------
(* The frame and audio cascades of extract_signals.py for a video, with the *)
(* ways an external tool can fail.                                          *)

\* max_frames of _av_extract_frames (line 112)
AV_MAX_FRAMES == 9

\* the size of a WAV file that has a header and no sample (lines 206, 532)
WAV_HEADER == 44

\* max(1, int(fps * 3)) for a rate in hundredths of a frame per second; a
\* stream without average_rate counts as 25.0
av_interval(fps100) == Max(1, (3 * (IF fps100 = 0 THEN 2500 ELSE fps100)) \div 100)

\* the decode loop of _av_extract_frames (lines 127-136) over n decoded frames
RECURSIVE av_loop(_, _, _, _, _)
av_loop(frame_idx, saved, n, interval, frames) ==
    IF frame_idx >= n THEN frames
    ELSE IF frame_idx = 0 \/ frame_idx % interval = 0
    THEN IF saved + 1 >= AV_MAX_FRAMES
         THEN Append(frames, [by |-> "av", idx |-> frame_idx])
         ELSE av_loop(frame_idx + 1, saved + 1, n, interval,
                      Append(frames, [by |-> "av", idx |-> frame_idx]))
    ELSE av_loop(frame_idx + 1, saved, n, interval, frames)

\* _av_extract_frames (lines 112-144)
_av_extract_frames(a) ==
    IF a.av # "ok" THEN <<>> ELSE av_loop(0, 0, a.decoded, av_interval(a.fps100), <<>>)

\* _ffmpeg_extract_frames (lines 76-109): the frames ffmpeg left in frame_dir
_ffmpeg_extract_frames(a) ==
    IF a.ffmpeg # "ok" THEN <<>> ELSE [i \in 1..a.pframes |-> [by |-> "ffmpeg", idx |-> i - 1]]

\* a cascade that runs both extractors
extract_frames_both(a) ==
    [frames |-> _ffmpeg_extract_frames(a) \o _av_extract_frames(a),
     calls |-> <<"ffmpeg_frames", "av_frames">>]

\* _extract_frames (lines 147-152)
_extract_frames(a) ==
    IF _ffmpeg_extract_frames(a) # <<>>
    THEN [frames |-> _ffmpeg_extract_frames(a), calls |-> <<"ffmpeg_frames">>]
    ELSE [frames |-> _av_extract_frames(a), calls |-> <<"ffmpeg_frames", "av_frames">>]

\* a test that takes any file for audio
has_audio_any(size) == size > 0

\* audio_path.exists() and audio_path.stat().st_size > 44; size 0 is no file
has_audio(size) == size > WAV_HEADER

\* _extract_audio (lines 204-211): the size of audio.wav after it
_extract_audio(a) ==
    IF has_audio(a.audio_primary)
    THEN [size |-> a.audio_primary, calls |-> <<"ffmpeg_audio">>]
    ELSE [size |-> IF a.audio_secondary > 0 THEN a.audio_secondary ELSE a.audio_primary,
          calls |-> <<"ffmpeg_audio", "av_audio">>]

\* lines 513-540 and 579-604 for a video: frames, OCR of the frames, audio,
\* speech-to-text; an exception of run_cmd leaves main()
media_result(a) ==
    LET fr == _extract_frames(a)
        au == _extract_audio(a)
        asr == has_audio(au.size)
    IN IF a.ffmpeg = "raises"
       THEN [raised |-> TRUE, ok |-> FALSE, frames |-> <<>>, calls |-> <<"ffmpeg_frames">>,
             audio |-> 0, asr |-> FALSE, speech_chunks |-> 0]
       ELSE IF fr.frames # <<>> /\ a.tesseract = "raises"
       THEN [raised |-> TRUE, ok |-> FALSE, frames |-> fr.frames,
             calls |-> fr.calls \o <<"tesseract">>, audio |-> 0, asr |-> FALSE,
             speech_chunks |-> 0]
       ELSE [raised |-> FALSE, ok |-> TRUE, frames |-> fr.frames,
             calls |-> fr.calls
                       \o (IF fr.frames # <<>> /\ a.tesseract # "missing" THEN <<"tesseract">> ELSE <<>>)
                       \o au.calls \o (IF asr THEN <<"asr">> ELSE <<>>),
             audio |-> au.size, asr |-> asr,
             speech_chunks |-> IF asr /\ a.speech THEN 2 ELSE 0]

\* the most frames ffmpeg leaves, the most frames the decoder reads
MaxPrimaryFrames == 2
MaxDecoded == 30

\* ffmpeg and tesseract: not installed, exit code 1, exit code 0, or run_cmd
\* raises (the tool cannot be started, its output is no text in the locale's
\* encoding)
ToolStates == {"missing", "nonzero", "ok", "raises"}

NoMedia ==
    [ffmpeg |-> "ok", pframes |-> 1, av |-> "ok", fps100 |-> 100, decoded |-> 1,
     tesseract |-> "missing", audio_primary |-> 1000, audio_secondary |-> 0, speech |-> TRUE]

FrameInputs ==
    { [NoMedia EXCEPT !.ffmpeg = f, !.pframes = k, !.av = v, !.fps100 = r, !.decoded = n] :
        f \in ToolStates, k \in 0..MaxPrimaryFrames, v \in {"unavailable", "raises", "ok"},
        r \in {0, 10, 100}, n \in 0..MaxDecoded }

AudioInputs ==
    { [NoMedia EXCEPT !.tesseract = t, !.audio_primary = p, !.audio_secondary = q, !.speech = sp] :
        t \in ToolStates, p \in {0, WAV_HEADER, 1000}, q \in {0, WAV_HEADER, 2000},
        sp \in BOOLEAN }

InitMedia ==
    /\ pc = "call"
    /\ arg \in FrameInputs \cup AudioInputs
    /\ ret = "none"
    /\ NoRun

extract_media ==
    /\ pc = "call"
    /\ ret' = media_result(arg)
    /\ pc' = "returned"
    /\ UNCHANGED <<arg, run_vars, pipe_vars>>

SpecMedia == InitMedia /\ [][extract_media]_vars

------------------------------------------------------------------------------
(* _extract_from_info_json of extract_signals.py over the fields of the     *)
(* sidecar documents.                                                       *)

\* str(data.get(key, "")).strip() for a key that is missing, null or a text
info_text(doc, key) == py_str(IF doc[key] = Absent THEN Text("") ELSE doc[key])

\* " ".join(str(t) for t in tags[:12]) is the empty text for no tag and for
\* one tag that is the empty text
tag_text_empty(tags) == tags = <<>> \/ tags = <<"">>

\* lines 403-478: post_content, the chunks and the evidence items after the
\* documents from the i-th on, given post_content so far
RECURSIVE info_fold(_, _, _)
info_fold(docs, i, post) ==
    IF i > Len(docs) THEN [post_content |-> post, chunks |-> <<>>, evidence |-> <<>>]
    ELSE LET title == info_text(docs[i], "title")
             description == info_text(docs[i], "description")
             tags == docs[i].tags
             next == [title |-> IF post.title.v = 0 /\ title.v > 0 THEN title ELSE post.title,
                      body |-> IF post.body.v = 0 /\ description.v > 0 THEN description ELSE post.body,
                      tags |-> IF post.tags = <<>> /\ tags # <<>> THEN tags ELSE post.tags]
             rest == info_fold(docs, i + 1, next)
             own(line, type, snippet) ==
                 [chunk |-> [doc |-> i, line |-> line, text |-> snippet],
                  item |-> [doc |-> i, type |-> type, snippet |-> snippet]]
             made == (IF title.v > 0 THEN <<own(1, "cover_ocr", title)>> ELSE <<>>)
                     \o (IF description.v > 0 THEN <<own(2, "transcript_span", description)>> ELSE <<>>)
                     \o (IF tags # <<>> /\ ~tag_text_empty(tags)
                         THEN <<own(3, "visual_pattern", Text("tags"))>> ELSE <<>>)
         IN [post_content |-> rest.post_content,
             chunks |-> Map(made, LAMBDA m : m.chunk) \o rest.chunks,
             evidence |-> Map(made, LAMBDA m : m.item) \o rest.evidence]

\* the most sidecar documents of an input
MaxDocs == 2

InfoDocs ==
    [title : {Text(""), Text("S5"), Text("quote"), JNull},
     description : {Absent, JNull, Text("high")},
     tags : {<<>>, <<"a">>, <<"">>}]

InitInfo ==
    /\ pc = "call"
    /\ arg \in SeqsUpTo(InfoDocs, MaxDocs)
    /\ ret = "none"
    /\ NoRun

extract_from_info_json ==
    /\ pc = "call"
    /\ ret' = info_fold(arg, 1, [title |-> Text(""), body |-> Text(""), tags |-> <<>>])
    /\ pc' = "returned"
    /\ UNCHANGED <<arg, run_vars, pipe_vars>>

SpecInfo == InitInfo /\ [][extract_from_info_json]_vars

------------------------------------------------------------------------------
(* _strip_sub_line and _parse_subtitle_file of extract_signals.py over the  *)
(* characters of the lines of a subtitle file.                              *)

SubDigits == {"0", "1", "7"}
ARROW == <<"-", "-", ">">>

\* re.sub(open [^close]+ close, "", line): scanning from the i-th character,
\* an opening character with a closing one later and something between them is
\* dropped up to the first closing character
RECURSIVE re_sub_span(_, _, _, _)
re_sub_span(line, open, close, i) ==
    IF i > Len(line) THEN <<>>
    ELSE LET j == FirstIdx(line, {close}, i + 1)
         IN IF line[i] = open /\ j <= Len(line) /\ j >= i + 2
            THEN re_sub_span(line, open, close, j + 1)
            ELSE <<line[i]>> \o re_sub_span(line, open, close, i + 1)

_strip_sub_line(line) ==
    Strip(re_sub_span(re_sub_span(line, "<", ">", 1), "{", "}", 1))

\* the lines the loop of _parse_subtitle_file does not skip
sub_keep_numbers(text) == text # <<>> /\ ~Contains(text, ARROW)

sub_keep(text) ==
    /\ text # <<>>
    /\ ~(\A i \in DOMAIN text : text[i] \in SubDigits)
    /\ ~Contains(text, ARROW)

\* _parse_subtitle_file over the lines of raw.splitlines()
parse_subtitle_lines(lines) ==
    LET all == [idx \in DOMAIN lines |-> [text |-> _strip_sub_line(lines[idx]), line |-> idx]]
    IN IF \A idx \in DOMAIN lines : Strip(lines[idx]) = <<>> THEN <<>>
       ELSE SelectSeq(all, LAMBDA c : sub_keep(c.text))

\* the most lines of a subtitle file
MaxLines == 3

SubtitleLines ==
    {<<>>, <<" ">>, <<"a">>, <<" ", "a", " ">>, <<"7">>, <<"1", "0">>, <<"7", "a">>,
     <<"<", "i", ">", "a", "<", "/", ">">>, <<"<", "i", ">", "7">>, <<"{", "x", "}">>,
     <<"{", "x", "}", " ", "a">>, <<"<", ">">>, <<"0", " ", "-", "-", ">", " ", "1">>,
     <<"<", "c", ">", "-", "-", ">">>, <<"a", "<", "{", "x", "}", ">">>}

InitSubtitle ==
    /\ pc = "call"
    /\ arg \in SeqsUpTo(SubtitleLines, MaxLines)
    /\ ret = "none"
    /\ NoRun

parse_subtitle_file ==
    /\ pc = "call"
    /\ ret' = parse_subtitle_lines(arg)
    /\ pc' = "returned"
    /\ UNCHANGED <<arg, run_vars, pipe_vars>>

SpecSubtitle == InitSubtitle /\ [][parse_subtitle_file]_vars

------------------------------------------------------------------------------
(* The engagement metrics from fetch_result.json through                    *)
(* extract_signals_result.json to the report.                               *)

METRIC_KEYS == {"likes", "comments", "plays"}

\* a count _pick_int found, or None
MetricValues == {JNull, JNum(0), JNum(7), JNum(120)}

\* fetch_content.main: the result document of a fetch that went well
fetch_payload(metrics) ==
    [ok |-> TRUE, meta |-> "meta", asset_index |-> "asset_index", engagement_metrics |-> metrics,
     post_content |-> "post_content"]

\* extract_signals.main: the keys of the payload it writes
signals_payload_keys(fetch) ==
    [ok |-> TRUE, meta |-> fetch.meta, asset_index |-> fetch.asset_index,
     post_content |-> "post_content", signals |-> "signals", logs |-> "logs",
     limitations |-> "limitations"]

\* _validate_report: signals.get("engagement_metrics", {}).get(key)
report_metrics(signals) ==
    [key \in METRIC_KEYS |-> Get(Get(signals, "engagement_metrics", <<>>), key, JNull)]

InitMetrics ==
    /\ pc = "call"
    /\ arg \in [METRIC_KEYS -> MetricValues]
    /\ ret = <<>>
    /\ NoRun

metrics_fetch ==
    /\ pc = "call"
    /\ ret' = [fetch_result |-> fetch_payload(arg)]
    /\ pc' = "fetched"
    /\ UNCHANGED <<arg, run_vars, pipe_vars>>

metrics_extract ==
    /\ pc = "fetched"
    /\ ret' = ret @@ [signals |-> signals_payload_keys(ret.fetch_result)]
    /\ pc' = "extracted"
    /\ UNCHANGED <<arg, run_vars, pipe_vars>>

metrics_analyze ==
    /\ pc = "extracted"
    /\ ret' = ret @@ [report |-> [engagement_metrics |-> report_metrics(ret.signals)]]
    /\ pc' = "returned"
    /\ UNCHANGED <<arg, run_vars, pipe_vars>>

NextMetrics == metrics_fetch \/ metrics_extract \/ metrics_analyze

SpecMetrics == InitMetrics /\ [][NextMetrics]_vars

------------------------------------------------------------------------------
(* cmd_check of github_skills_suite.py: the remote lookups in a thread pool, *)
(* the command run twice over the same skills root.                         *)

\* the names a SKILL.md can declare, in the order of str comparison
SkillNames == <<"a", "b">>

\* what git ls-remote gives for a skill whose local hash is h1
RemoteHashes == {"None", "h1", "h2"}

\* the most skill directories under the root
MaxSkills == 2

\* a skill directory with a github_url: the declared name, the remote's answer
SkillDirs == [name : ToSet(SkillNames), remote : RemoteHashes]

\* _one(skill) for the i-th directory in the order of the directory names
_one(skill, i) ==
    [name |-> skill.name, path |-> i, local_hash |-> "h1", remote_hash |-> skill.remote,
     status |-> IF skill.remote = "None" THEN "error"
                ELSE IF skill.remote # "h1" THEN "outdated"
                ELSE "current"]

\* results.sort(key=lambda x: x["name"]): the sort is stable
sort_by_name(results) ==
    Flatten([k \in DOMAIN SkillNames |->
                SelectSeq(results, LAMBDA r : r.name = SkillNames[k])])

InitCheck ==
    /\ pc = "call"
    /\ arg \in SeqsUpTo(SkillDirs, MaxSkills)
    /\ ret = [printed |-> <<>>, pending |-> {}, results |-> <<>>]
    /\ NoRun

\* futs = [ex.submit(_one, s) for s in skills]
cmd_check_submit ==
    /\ pc = "call"
    /\ ret' = [ret EXCEPT !.pending = DOMAIN arg, !.results = <<>>]
    /\ pc' = "pool"
    /\ UNCHANGED <<arg, run_vars, pipe_vars>>

\* as_completed hands over the future of the i-th skill
cmd_check_completed(i) ==
    /\ pc = "pool"
    /\ i \in ret.pending
    /\ ret' = [ret EXCEPT !.pending = @ \ {i}, !.results = Append(@, _one(arg[i], i))]
    /\ UNCHANGED <<pc, arg, run_vars, pipe_vars>>

\* the sort and the print; the command is run a second time, then no more
cmd_check_print ==
    /\ pc = "pool"
    /\ ret.pending = {}
    /\ ret' = [ret EXCEPT !.printed = Append(@, sort_by_name(ret.results))]
    /\ pc' = IF ret.printed = <<>> THEN "call" ELSE "returned"
    /\ UNCHANGED <<arg, run_vars, pipe_vars>>

NextCheck ==
    \/ cmd_check_submit
    \/ \E i \in 1..MaxSkills : cmd_check_completed(i)
    \/ cmd_check_print

SpecCheck == InitCheck /\ [][NextCheck]_vars

------------------------------------------------------------------------------
(* Properties *)

DouyinOrXhs == platform \in {"douyin", "xiaohongshu"}

IsPrefix(a, b) == Len(a) <= Len(b) /\ SubSeq(b, 1, Len(a)) = a

\* an invocation the code counts as a success: exit code 0 and a non-empty recorded new_files
Succeeded(e) == e.exit_code = 0 /\ e.new_files # <<>>

\* the attempts of a run in their fixed order: the specialized candidates found
\* on PATH, then the cookie variants of yt-dlp
Plan ==
    LET found == SelectSeq(candidates(platform), LAMBDA c : c \in PATH)
        vs == _cookie_arg_variants(session, platform, disk)
    IN [i \in 1..Len(found) |-> <<adapter_name(platform), found[i]>>]
       \o (IF "yt-dlp" \in PATH THEN [i \in 1..Len(vs) |-> <<"yt-dlp", vs[i].label>>] ELSE <<>>)

Ran == [i \in 1..Len(executed) |-> <<executed[i].adapter, executed[i].label>>]

\* C1: for a douyin or xiaohongshu URL the invocations executed so far are a
\* prefix of the fixed order (no attempt out of order, none skipped), no
\* invocation follows one with exit code 0 and a non-empty new-file set
\* (recorded, or really written), and the adapter phase ends only after such
\* an invocation or at the end of the order.
C1_FixedOrderStopAtFirstSuccess ==
    DouyinOrXhs =>
        /\ IsPrefix(Ran, Plan)
        /\ \A i \in 1..(Len(executed) - 1) :
              /\ ~Succeeded(executed[i])
              /\ ~(executed[i].exit_code = 0 /\ executed[i].post # executed[i].pre)
        /\ pc \in {"post", "done"} =>
              \/ executed # <<>> /\ Succeeded(executed[Len(executed)])
              \/ Ran = Plan

\* a run that stopped at a successful cookie variant after a failed specialized
\* tool and a failed variant, with variants left untried
C1_Witness ==
    /\ pc = "done" /\ DouyinOrXhs
    /\ Len(executed) >= 3 /\ Len(executed) < Len(Plan)
    /\ executed[1].adapter # "yt-dlp"
    /\ Succeeded(executed[Len(executed)])

RECURSIVE Logged(_)
Logged(log) ==
    IF log = <<>> THEN <<>>
    ELSE LET e == Head(log)
             own == IF e.attempt_variants # <<>>
                    THEN [i \in 1..Len(e.attempt_variants) |->
                             <<e.attempt_variants[i].adapter, e.attempt_variants[i].label>>]
                    ELSE IF e.error # "none" THEN <<>>
                    ELSE <<<<e.adapter, e.label>>>>
         IN own \o Logged(Tail(log))

\* C3: the attempt log of the result document holds exactly one entry for every
\* invocation executed, in execution order.
C3_EveryInvocationLogged ==
    (pc = "done" /\ DouyinOrXhs) => Logged(result[1].attempts) = Ran

\* C4: the new_files recorded for an invocation is the set of files present
\* right after it minus the set present right before it.
C4_NewFilesIsOwnDiff ==
    \A i \in DOMAIN executed : ToSet(executed[i].new_files) = executed[i].post \ executed[i].pre

\* C6: a URL that resolves to platform unknown ends the run at once: one failure
\* document with code UNSUPPORTED_PLATFORM, exit status 1, no adapter invocation.
C6_UnknownPlatformHardStop ==
    platform = "unknown" =>
        /\ pc = "done"
        /\ Len(result) = 1 /\ result[1].ok = FALSE /\ result[1].code = "UNSUPPORTED_PLATFORM"
        /\ exit_code = 1
        /\ executed = <<>> /\ adapter_attempts = <<>>

\* the hard stop of a run that was given a manual input file
C6_Witness ==
    /\ platform = "unknown" /\ pc = "done"
    /\ args_input.audio # <<>>
    /\ result # <<>> /\ result[1].code = "UNSUPPORTED_PLATFORM"

\* the hosts the UNSUPPORTED_PLATFORM remediation message names (line 536)
RemediationHosts == {DOUYIN_COM, XIAOHONGSHU_COM, XHSLINK_COM, MP_WEIXIN_QQ_COM}

\* C7: a URL on a host the remediation message names resolves to one of the
\* three supported platforms and is not stopped as unsupported.
C7_RemediationHostsSupported ==
    (pc # "start" /\ \E h \in RemediationHosts : Contains(Lower(urlparse(Strip(raw_url)).netloc), h))
        => /\ platform \in {"douyin", "xiaohongshu", "wechat_mp"}
           /\ \A i \in DOMAIN result : result[i].code # "UNSUPPORTED_PLATFORM"

\* the files of a run that fall in a recognized asset category
Recognized ==
    {p \in files \cup ToSet(manual_paths(manual_assets)) :
        suffix(p) \in VIDEO_EXTS \cup IMAGE_EXTS \cup AUDIO_EXTS \cup TRANSCRIPT_EXTS}

\* C9: for a supported platform the result is a failure document exactly when
\* acquisition did not succeed and no video, image, audio or transcript file
\* was classified.
C9_FailureIffNothingUsable ==
    (pc = "done" /\ DouyinOrXhs) =>
        (result[1].ok = FALSE <=> (~success /\ Recognized = {}))

\* C12: when yt-dlp is installed and the stderr tail of any executed
\* invocation, a cookie variant before the last one included, matches a DNS
\* pattern, the failure document carries the DNS class.
C12_DnsAnywhereClassifiedDns ==
    (/\ pc = "done" /\ DouyinOrXhs /\ result[1].ok = FALSE
     /\ "yt-dlp" \in PATH
     /\ \E i \in DOMAIN executed : _looks_dns_error(LastN(executed[i].stderr, STDERR_TAIL)))
        => result[1].reason = R_DNS

\* C13: a run over an empty download directory, without manual files and with
\* yt-dlp installed, whose invocations all exit with 0, write no file and print
\* nothing, ends with a failure document whose error code is
\* "UnknownDownloadFailure".
C13_AllExitZeroNoFilesUnknownCode ==
    (/\ pc = "done" /\ DouyinOrXhs /\ "yt-dlp" \in PATH
     /\ args_input = NoManual
     /\ executed # <<>>
     /\ \A i \in DOMAIN executed :
           /\ executed[i].exit_code = 0
           /\ executed[i].pre = {} /\ executed[i].post = {}
           /\ executed[i].stderr = <<>>)
        => /\ result[1].ok = FALSE
           /\ result[1].code = "UnknownDownloadFailure"

\* what the download directory held before the first invocation
InitialFiles == IF executed = <<>> THEN files ELSE executed[1].pre

\* C14: the asset index of an ok result holds only files this run's invocations
\* wrote and existing manual files; when one successful invocation wrote one
\* video and one subtitle, nothing else was written and no manual file is
\* given, it has exactly one video and one transcript entry.
C14_AssetIndexOnlyThisRun ==
    (pc = "done" /\ DouyinOrXhs /\ result[1].ok) =>
        /\ \A k \in DOMAIN result[1].asset_index :
              ToSet(result[1].asset_index[k])
                 \subseteq (files \ InitialFiles) \cup ToSet(manual_paths(manual_assets))
        /\ (/\ args_input = NoManual
            /\ files \ InitialFiles = {"download/s.srt", "download/v.mp4"}
            /\ \E i \in DOMAIN executed :
                  /\ executed[i].exit_code = 0
                  /\ executed[i].post \ executed[i].pre = {"download/s.srt", "download/v.mp4"})
              => /\ Len(result[1].asset_index.video) = 1
                 /\ Len(result[1].asset_index.transcript) = 1

\* the --input-* paths that exist as regular files when the run starts
ExistingManual ==
    {resolve(p) : p \in ToSet(manual_paths(args_input))} \cap (disk \cup InitialFiles)

\* C15: every manual path that exists as a regular file is in the asset index
\* of an ok result, whatever its extension.
C15_ManualFilesInAssetIndex ==
    (pc = "done" /\ DouyinOrXhs /\ result[1].ok) =>
        \A p \in ExistingManual :
            \E k \in DOMAIN result[1].asset_index : p \in ToSet(result[1].asset_index[k])

\* the category the extension of a path stands for
CategoryOf(p) ==
    IF suffix(p) \in VIDEO_EXTS THEN "video"
    ELSE IF suffix(p) \in IMAGE_EXTS THEN "images"
    ELSE IF suffix(p) \in AUDIO_EXTS THEN "audio"
    ELSE IF suffix(p) \in TRANSCRIPT_EXTS THEN "transcript"
    ELSE "other"

Count(q, p) == Cardinality({i \in DOMAIN q : q[i] = p})

\* C16: every file under the download directory and every existing manual file
\* is listed once, lies once in the category of its lower-cased extension and
\* in no other category, and the asset index holds nothing else.
C16_ClassificationPartition ==
    (pc = "done" /\ DouyinOrXhs /\ result[1].ok) =>
        LET all == result[1].all_files
            index == result[1].asset_index
            other == classify_files(all).other
        IN /\ ToSet(all) = files \cup ExistingManual
           /\ \A p \in ToSet(all) :
                 /\ Count(all, p) = 1
                 /\ \A k \in DOMAIN index : Count(index[k], p) = IF CategoryOf(p) = k THEN 1 ELSE 0
                 /\ Count(other, p) = IF CategoryOf(p) = "other" THEN 1 ELSE 0
           /\ \A k \in DOMAIN index : ToSet(index[k]) \subseteq ToSet(all)

\* an ok result for a video that lay in the download directory and was also
\* given with --input-video, in a non-canonical spelling
C16_Witness ==
    /\ pc = "done" /\ result # <<>> /\ result[1].ok
    /\ args_input.video = <<"download/../download/v.mp4">>
    /\ "download/v.mp4" \in InitialFiles
    /\ result[1].asset_index.video = <<"download/v.mp4">>

\* ---- SpecStage

\* C17: a stage whose upstream document is missing or has ok not true writes a
\* failure document with its own code (UPSTREAM_FETCH_FAILED for
\* extract_signals, UPSTREAM_SIGNALS_FAILED for analyze_content) that embeds
\* the upstream error, returns 1 and calls no extractor and no analysis.
C17_UpstreamFailureStopsStage ==
    (/\ pc = "returned"
     /\ \/ ~arg.upstream.exists
        \/ "ok" \notin DOMAIN arg.upstream.doc
        \/ arg.upstream.doc.ok # TRUE)
        => /\ ret.doc.ok = FALSE
           /\ ret.doc.error.code = (IF arg.stage = "extract_signals" THEN "UPSTREAM_FETCH_FAILED"
                                    ELSE "UPSTREAM_SIGNALS_FAILED")
           /\ ret.doc.error.upstream = (IF arg.upstream.exists /\ "error" \in DOMAIN arg.upstream.doc
                                        THEN arg.upstream.doc.error ELSE Null)
           /\ ret.exit_code = 1
           /\ ret.calls = <<>>

\* analyze_content given the failure document extract_signals wrote for a
\* failed download: the wrapped error is embedded once more
C17_Witness ==
    /\ pc = "returned" /\ arg.stage = "analyze_content"
    /\ arg.upstream.exists
    /\ ~ret.doc.ok
    /\ ret.doc.error.code = "UPSTREAM_SIGNALS_FAILED"
    /\ Get(ret.doc.error.upstream, "code", "") = "UPSTREAM_FETCH_FAILED"
    /\ Get(ret.doc.error.upstream, "upstream", Null) = [code |-> "DOWNLOAD_FAILED"]
    /\ ret.exit_code = 1

\* ---- SpecPipeline

LaunchedNames == [i \in 1..Len(launched) |-> launched[i].step]

\* the steps of a run in their order; session_bootstrap belongs to it unless
\* --skip-session is given or the session file exists
PipelinePlan ==
    (IF ~arg.skip_session /\ ~arg.session_exists THEN <<"session_bootstrap">> ELSE <<>>)
    \o <<"fetch_content", "extract_signals", "analyze_content">>

\* C18: the steps launched so far are a prefix of session_bootstrap (optional),
\* fetch_content, extract_signals, analyze_content; every step but the last
\* launched exited with 0; after a step that exited non-zero the run is over;
\* a run that ends with no failed step launched them all.
C18_StepsInOrder ==
    /\ IsPrefix(LaunchedNames, PipelinePlan)
    /\ \A i \in 1..(Len(launched) - 1) : launched[i].exit_code = 0
    /\ (launched # <<>> /\ launched[Len(launched)].exit_code # 0) => pc = "pipeline_done"
    /\ (pc = "pipeline_done" /\ run_meta # <<>> /\ \A i \in DOMAIN launched : launched[i].exit_code = 0)
          => LaunchedNames = PipelinePlan

\* a run that launched session_bootstrap and fetch_content and ended when
\* fetch_content was killed by a signal
C18_Witness ==
    /\ pc = "pipeline_done"
    /\ LaunchedNames = <<"session_bootstrap", "fetch_content">>
    /\ launched[2].exit_code = -9

\* the step that failed reported its failure in its result document
ReportedFailure ==
    /\ launched # <<>>
    /\ launched[Len(launched)].exit_code # 0
    /\ ResultFile(launched[Len(launched)].step) \in DOMAIN launched[Len(launched)].files

\* the UPSTREAM_*_FAILED spellings that name a step
UpstreamCodes(step) ==
    CASE step = "session_bootstrap" -> {"UPSTREAM_SESSION_FAILED", "UPSTREAM_SESSION_BOOTSTRAP_FAILED"}
      [] step = "fetch_content" -> {"UPSTREAM_FETCH_FAILED", "UPSTREAM_FETCH_CONTENT_FAILED"}
      [] step = "extract_signals" -> {"UPSTREAM_SIGNALS_FAILED", "UPSTREAM_EXTRACT_SIGNALS_FAILED"}
      [] step = "analyze_content" -> {"UPSTREAM_ANALYSIS_FAILED", "UPSTREAM_ANALYZE_CONTENT_FAILED"}

\* C19: when a step reported failure, error.json carries an UPSTREAM_*_FAILED
\* code that names the step and, as upstream, the StructuredError of the
\* step's result document.
C19_ErrorWrapsUpstream ==
    (pc = "pipeline_done" /\ ReportedFailure) =>
        LET last == launched[Len(launched)]
            e == out_dir["error.json"].error
        IN /\ e.code \in UpstreamCodes(last.step)
           /\ "upstream" \in DOMAIN e
           /\ e.upstream = last.files[ResultFile(last.step)].error

\* C22: with mode ask a run that is not interactive resolves to always and
\* reads no answer; an interactive prompt that meets end of input or an empty
\* answer first resolves to always; the mode resolves to never only when the
\* run is interactive and an answer n or no was typed.
C22_AskResolvesToKeep ==
    (run_meta # <<>> /\ arg.save_artifacts = "ask") =>
        /\ run_meta.save_artifacts \in {"always", "never"}
        /\ arg.non_interactive => run_meta.save_artifacts = "always" /\ ret.prompts = 0
        /\ (~arg.non_interactive /\ arg.typed \in {<<>>, <<" ">>})
              => run_meta.save_artifacts = "always" /\ ret.prompts = 1
        /\ run_meta.save_artifacts = "never"
              => /\ ~arg.non_interactive
                 /\ \E i \in DOMAIN arg.typed : arg.typed[i] \in {"n", "N", "no"}

\* a run without a terminal that has a no waiting on stdin and keeps everything
C22_Witness ==
    /\ arg.save_artifacts = "ask" /\ arg.non_interactive /\ arg.typed = <<"no">>
    /\ run_meta # <<>> /\ run_meta.save_artifacts = "always"
    /\ ret.prompts = 0 /\ pc = "pipeline_done"

\* the files the run found or its steps wrote
FilesSeen ==
    DOMAIN OutputDirAtStart(arg)
    \cup UNION { DOMAIN launched[i].files : i \in DOMAIN launched }

\* C21: after a run with mode never in which every step succeeded the output
\* directory holds report.json, report.md and run_meta.json and nothing else;
\* a run that failed, and a run with mode always, still has every file that
\* was there or that a step wrote.
C21_NeverKeepsOnlyReport ==
    pc = "pipeline_done" /\ run_meta # <<>> =>
        IF pipeline_exit = 0 /\ run_meta.save_artifacts = "never"
        THEN DOMAIN out_dir = {"report.json", "report.md", "run_meta.json"}
        ELSE FilesSeen \subseteq DOMAIN out_dir

RunMetaWrites == SelectSeq(written, LAMBDA w : w.file = "run_meta.json")

\* C20: run_meta.json is written when the run ends and not before; a run that
\* launched a step wrote it once, as its last file, with one entry per
\* launched step in launch order that has the step's exit code and tails of
\* its stdout and stderr no longer than 2000 characters (the whole text when
\* it is no longer), and with ok true exactly when every step exited with 0.
C20_RunMetaWrittenOnce ==
    /\ pc # "pipeline_done" => RunMetaWrites = <<>>
    /\ (pc = "pipeline_done" /\ launched # <<>>) =>
          /\ Len(RunMetaWrites) = 1
          /\ written[Len(written)].file = "run_meta.json"
          /\ out_dir["run_meta.json"] = RunMetaWrites[1].doc
          /\ LET m == RunMetaWrites[1].doc
             IN /\ Len(m.steps) = Len(launched)
                /\ \A i \in DOMAIN launched :
                      /\ m.steps[i].step = launched[i].step
                      /\ m.steps[i].exit_code = launched[i].exit_code
                      /\ m.steps[i].stdout_tail <= 2000 /\ m.steps[i].stderr_tail <= 2000
                      /\ m.steps[i].stdout_tail = (IF launched[i].stdout <= 2000 THEN launched[i].stdout ELSE 2000)
                      /\ m.steps[i].stderr_tail = (IF launched[i].stderr <= 2000 THEN launched[i].stderr ELSE 2000)
                /\ m.ok = (\A i \in DOMAIN launched : launched[i].exit_code = 0)

\* a run whose second step failed after printing 2500 characters on stderr
C20_Witness ==
    /\ pc = "pipeline_done" /\ Len(launched) = 2
    /\ launched[2].exit_code = 1 /\ launched[2].stderr = 2500
    /\ RunMetaWrites # <<>>
    /\ RunMetaWrites[1].doc.steps[2].stderr_tail = 2000
    /\ RunMetaWrites[1].doc.ok = FALSE

\* ---- SpecEvidence

\* the value _normalize_evidence read as confidence is no number
NonNumeric(c) == c.t \notin {"num", "bool"} /\ ~(c.t = "str" /\ c.s \in NumericTexts)

\* C23: for every input value _normalize_evidence returns a list with one
\* item per object of the input, in order; the item's type is one of the five
\* (transcript_span for any other), source, locator and snippet are the first
\* 300, 120 and 200 characters, confidence is 0.5 when the input has none or
\* one that is no number.
C23_NormalizeTotal ==
    pc = "returned" =>
        /\ ret.once.t = "list"
        /\ LET objs == IF arg.t = "list" THEN dict_items(arg) ELSE <<>>
               out == ret.once.elems
           IN /\ Len(out) = Len(objs)
              /\ \A i \in DOMAIN out :
                    /\ out[i].t = "dict" /\ DOMAIN out[i].fields = EVIDENCE_KEYS
                    /\ out[i].fields["type"].s \in ALLOWED_EVIDENCE_TYPES
                    /\ item_get(objs[i], "type", JNull) \in {Text(w) : w \in ALLOWED_EVIDENCE_TYPES}
                          => out[i].fields["type"] = objs[i].fields["type"]
                    /\ item_get(objs[i], "type", JNull) \notin {Text(w) : w \in ALLOWED_EVIDENCE_TYPES}
                          => out[i].fields["type"] = Text("transcript_span")
                    /\ out[i].fields["source"].v <= 300
                    /\ out[i].fields["locator"].v <= 120
                    /\ out[i].fields["snippet"].v <= 200
                    /\ ("confidence" \notin DOMAIN objs[i].fields \/ NonNumeric(objs[i].fields["confidence"]))
                          => out[i].fields["confidence"] = JNum(DEFAULT_CONFIDENCE)

\* C24: when _normalize_evidence returns, applying it to what it returned
\* gives the same list.
C24_NormalizeIdempotent ==
    (pc = "returned" /\ ret.once.t = "list") => ret.twice = ret.once

\* C25: every item returned has a confidence between 0 and 1, and an input
\* confidence that is a number between 0 and 1 is returned as it is.
C25_ConfidenceInRange ==
    (pc = "returned" /\ ret.once.t = "list") =>
        LET objs == IF arg.t = "list" THEN dict_items(arg) ELSE <<>>
            out == ret.once.elems
        IN \A i \in DOMAIN out :
              /\ out[i].fields["confidence"].t = "num"
              /\ out[i].fields["confidence"].v >= 0 /\ out[i].fields["confidence"].v <= 10
              /\ LET c == item_get(objs[i], "confidence", JNull)
                 IN (c.t = "num" /\ c.v >= 0 /\ c.v <= 10) => out[i].fields["confidence"] = c

\* ---- SpecSignals

\* C26: every item of evidence_pool has a type of the five, a source of at
\* most 300, a locator of at most 120, a snippet of at most 200 characters
\* and a confidence between 0 and 1.
C26_PoolItemsWellFormed ==
    pc = "returned" =>
        \A i \in DOMAIN ret.evidence_pool :
            LET e == ret.evidence_pool[i]
            IN /\ e.type \in ALLOWED_EVIDENCE_TYPES
               /\ e.source.v <= 300 /\ e.locator.v <= 120 /\ e.snippet.v <= 200
               /\ e.confidence >= 0 /\ e.confidence <= 100

\* C27: evidence_pool has at most 10 items from OCR hits, at most 10 from
\* transcript chunks and at most a fixed number, 10 as for the other two,
\* from the sidecar documents, however many of those there are.
C27_PoolCaps ==
    pc = "returned" =>
        /\ ret.pool_sizes.ocr <= 10
        /\ ret.pool_sizes.transcript <= 10
        /\ ret.pool_sizes.meta <= 10

InSeq(x, seq) == \E i \in DOMAIN seq : seq[i] = x

\* C28: limitations has the no-transcript advisory exactly when
\* transcript_chunks is empty and the no-OCR advisory exactly when ocr_hits is
\* empty; a fetch result with an empty asset_index gives ok true, no OCR hit
\* and both advisories.
C28_LimitationsIffEmpty ==
    pc = "returned" =>
        /\ InSeq(NO_TRANSCRIPT, ret.limitations) <=> ret.transcript_chunks = <<>>
        /\ InSeq(NO_OCR, ret.limitations) <=> ret.ocr_hits = <<>>
        /\ (~arg.video /\ arg.images = <<>> /\ arg.subtitles = 0)
              => /\ ret.ok /\ ret.ocr_hits = <<>>
                 /\ InSeq(NO_TRANSCRIPT, ret.limitations) /\ InSeq(NO_OCR, ret.limitations)

\* the primary engine gave no text for the image of a run
PrimaryGaveNothing(run) == arg.primary # "text" \/ run.kind = "blank"

\* the hit of a run of _ocr_image
HitOf(run) == ocr_hit(arg, run)

\* the evidence item of a hit is in the pool
EvidenceInPool(hit) ==
    \E i \in DOMAIN ret.evidence_pool :
        /\ ret.evidence_pool[i].source = hit.source
        /\ ret.evidence_pool[i].locator = hit.locator
        /\ ret.evidence_pool[i].snippet = slice(JStr(hit.text, OcrTextLen(hit.text)), 120)
        /\ ret.evidence_pool[i].confidence = hit.confidence

\* the parts of C29 about the engines and the hits
OcrCascade(run) ==
    /\ InSeq("find_tesseract", run.r.calls) <=> PrimaryGaveNothing(run)
    /\ InSeq("tesseract", run.r.calls) => InSeq("find_tesseract", run.r.calls)
    /\ InSeq("rapidocr", run.r.calls) <=> arg.primary # "unavailable"
    /\ InSeq(HitOf(run), ret.ocr_hits) <=> run.r.text # ""
    /\ (InSeq("tesseract", run.r.calls) /\ run.r.text # "")
          => run.r.conf >= 25 /\ run.r.conf <= 95

\* the secondary engine read a text with the primary engine unavailable
SecondaryRead(run) == arg.primary = "unavailable" /\ arg.tesseract = "works" /\ run.kind # "blank"

\* C29 as stated: for every image the secondary engine is reached for exactly
\* when the primary is unavailable, raised or gave no text; a hit is recorded
\* exactly for a non-empty text; a confidence of the secondary engine is
\* between 0.25 and 0.95; a text the secondary engine read with the primary
\* unavailable is an OCR hit and its evidence item is in the pool.
C29_OcrCascade_AsStated ==
    pc = "returned" =>
        \A i \in DOMAIN ret.ocr_runs :
            /\ OcrCascade(ret.ocr_runs[i])
            /\ SecondaryRead(ret.ocr_runs[i])
                  => /\ InSeq(HitOf(ret.ocr_runs[i]), ret.ocr_hits)
                     /\ EvidenceInPool(HitOf(ret.ocr_runs[i]))

\* C29 amended: the evidence item is in the pool when the hit is one of the
\* first 10 hits.
C29_OcrCascade ==
    pc = "returned" =>
        \A i \in DOMAIN ret.ocr_runs :
            /\ OcrCascade(ret.ocr_runs[i])
            /\ SecondaryRead(ret.ocr_runs[i])
                  => /\ InSeq(HitOf(ret.ocr_runs[i]), ret.ocr_hits)
                     /\ InSeq(HitOf(ret.ocr_runs[i]), Take(ret.ocr_hits, 10))
                           => EvidenceInPool(HitOf(ret.ocr_runs[i]))

\* the secondary engine read punctuation from the second image of a post with
\* the primary engine unavailable: the hit has the lowest confidence
C29_Witness ==
    /\ pc = "returned"
    /\ arg.primary = "unavailable" /\ arg.tesseract = "works"
    /\ arg.images = <<"blank", "symbols">>
    /\ Len(ret.ocr_hits) = 1 /\ ret.ocr_hits[1].text = "symbols"
    /\ ret.ocr_hits[1].confidence = 25
    /\ EvidenceInPool(ret.ocr_hits[1])

\* the chunks of transcript_chunks that a speech engine gave
SpeechChunks == SelectSeq(ret.transcript_chunks, LAMBDA c : c.source = "audio.wav")

\* the cloud path of the input gives no chunk
CloudGivesNothing == ~arg.api_key \/ ~arg.sdk \/ arg.cloud \in {"fails", "empty"}

\* C30: the local engine is invoked exactly when there is audio and the cloud
\* path gave no chunk; without the credential the cloud service is not
\* called; the speech chunks have one engine, those of the cloud no start,
\* those of the local engine a start, and their line numbers increase.
C30_AsrCascade ==
    pc = "returned" =>
        /\ InSeq("local_whisper", ret.asr_calls) <=> (arg.video /\ arg.audio /\ CloudGivesNothing)
        /\ ~arg.api_key => ~InSeq("openai_api", ret.asr_calls)
        /\ \A i, j \in DOMAIN SpeechChunks :
              /\ SpeechChunks[i].engine = SpeechChunks[j].engine
              /\ i < j => SpeechChunks[i].line < SpeechChunks[j].line
        /\ \A i \in DOMAIN SpeechChunks :
              /\ SpeechChunks[i].engine \in {"cloud", "local"}
              /\ SpeechChunks[i].start <=> SpeechChunks[i].engine = "local"

\* the cloud service answered with an empty text and the local model gave two chunks
C30_Witness ==
    /\ pc = "returned"
    /\ arg.video /\ arg.audio /\ arg.sdk /\ arg.api_key /\ arg.cloud = "empty"
    /\ ret.asr_calls = <<"openai_api", "local_whisper">>
    /\ Len(SpeechChunks) = 2 /\ SpeechChunks[1].engine = "local"

\* ---- SpecTimeout

\* C31: a run is never left waiting without a timeout for a child that does
\* not exit, so it goes on to the next process and to its result document.
C31_NoWaitWithoutTimeout ==
    pc = "waiting" =>
        \/ arg[ret.done + 1].child # HANGS
        \/ timeout_of(arg[ret.done + 1].caller) # NoTimeout

\* ---- SpecExit

STRUCTURED_ERROR_KEYS == {"code", "reason", "next_action", "timestamp"}

\* C32: every run of a stage writes its result document once; the exit code
\* is 0 exactly when the document has ok true; a run that exits with another
\* code wrote a document with ok false and an error that has code, reason,
\* next_action and timestamp.
C32_StageWritesResult ==
    pc = "returned" =>
        /\ Len(ret.written) = 1
        /\ ret.exit_code = 0 <=> Get(ret.written[1], "ok", FALSE)
        /\ ret.exit_code # 0 =>
              /\ ~ret.written[1].ok
              /\ STRUCTURED_ERROR_KEYS \subseteq DOMAIN ret.written[1].error

\* ---- SpecMedia

\* C33: when ffmpeg or tesseract is missing, exits with a code other than 0
\* or raises while it runs, the frame cascade and the audio cascade go on to
\* their next engine and the result has ok true.
C33_ToolFailureNotFatal ==
    pc = "returned" =>
        /\ ret.ok
        /\ arg.ffmpeg # "ok" => InSeq("av_frames", ret.calls)
        /\ arg.audio_primary = 0 => InSeq("av_audio", ret.calls)

\* C34: the secondary extractor runs exactly when the primary returned no
\* frame; the frames returned are of one extractor; those of the secondary
\* are the decoded frames 0, I, 2I, ... for I = max(1, int(3 * fps)), in this
\* order, and no more than the first 9 of them.
C34_FrameCascade ==
    (pc = "returned" /\ ~ret.raised) =>
        LET fps100 == IF arg.fps100 = 0 THEN 2500 ELSE arg.fps100
            I == Max(1, (3 * fps100) \div 100)
            multiples == (arg.decoded + I - 1) \div I
        IN /\ InSeq("av_frames", ret.calls) <=> (arg.ffmpeg # "ok" \/ arg.pframes = 0)
           /\ \A i, j \in DOMAIN ret.frames : ret.frames[i].by = ret.frames[j].by
           /\ (InSeq("av_frames", ret.calls) /\ arg.av = "ok") =>
                 /\ Len(ret.frames) = Min(9, multiples)
                 /\ \A i \in DOMAIN ret.frames :
                       ret.frames[i].by = "av" /\ ret.frames[i].idx = (i - 1) * I

\* ffmpeg is missing and the decoder reads 30 frames at 1 frame per second:
\* it saves frames 0, 3, ..., 24 and stops
C34_Witness ==
    /\ pc = "returned" /\ ~ret.raised
    /\ arg.ffmpeg = "missing" /\ arg.av = "ok" /\ arg.fps100 = 100 /\ arg.decoded >= 28
    /\ Len(ret.frames) = 9 /\ ret.frames[9] = [by |-> "av", idx |-> 24]

\* C35: the secondary audio path runs exactly when after the primary one
\* audio.wav is absent or has no more than 44 bytes; speech-to-text is
\* attempted exactly when after the cascade audio.wav has more than 44 bytes;
\* without it there is no speech chunk and the result has ok true.
C35_AudioCascade ==
    (pc = "returned" /\ ~ret.raised) =>
        /\ InSeq("av_audio", ret.calls) <=> arg.audio_primary <= 44
        /\ ret.asr <=> ret.audio > 44
        /\ InSeq("asr", ret.calls) <=> ret.asr
        /\ ~ret.asr => ret.speech_chunks = 0 /\ ret.ok

\* ffmpeg left a header of 44 bytes, the decoder wrote the samples
C35_Witness ==
    /\ pc = "returned" /\ ~ret.raised
    /\ arg.audio_primary = 44 /\ arg.audio_secondary = 2000
    /\ ret.calls = <<"ffmpeg_frames", "ffmpeg_audio", "av_audio", "asr">>
    /\ ret.audio = 2000 /\ ret.speech_chunks = 2

\* ---- SpecInfo

\* the documents whose field has a value that is not empty
WithField(key) ==
    { i \in DOMAIN arg : IF key = "tags" THEN arg[i].tags # <<>>
                         ELSE arg[i][key] \notin {Absent, JNull, Text("")} }

\* the value of a field in the first document that has one, or the empty value
FirstValue(key) ==
    IF WithField(key) = {} THEN (IF key = "tags" THEN <<>> ELSE Text(""))
    ELSE arg[CHOOSE i \in WithField(key) : \A j \in WithField(key) : i <= j][key]

\* C36: title, body and tags of post_content are the values of the first
\* document in which the field is not empty; every document with a title, a
\* description or tags that are not empty has its own chunk and its own
\* evidence item, typed cover_ocr, transcript_span and visual_pattern.
C36_FirstSourceWins ==
    pc = "returned" =>
        /\ ret.post_content.title = FirstValue("title")
        /\ ret.post_content.body = FirstValue("description")
        /\ ret.post_content.tags = FirstValue("tags")
        /\ \A i \in DOMAIN arg :
              /\ i \in WithField("title") =>
                    /\ \E n \in DOMAIN ret.chunks : ret.chunks[n].doc = i /\ ret.chunks[n].line = 1
                    /\ \E n \in DOMAIN ret.evidence :
                          ret.evidence[n].doc = i /\ ret.evidence[n].type = "cover_ocr"
              /\ i \in WithField("description") =>
                    /\ \E n \in DOMAIN ret.chunks : ret.chunks[n].doc = i /\ ret.chunks[n].line = 2
                    /\ \E n \in DOMAIN ret.evidence :
                          ret.evidence[n].doc = i /\ ret.evidence[n].type = "transcript_span"
              /\ i \in WithField("tags") =>
                    /\ \E n \in DOMAIN ret.chunks : ret.chunks[n].doc = i /\ ret.chunks[n].line = 3
                    /\ \E n \in DOMAIN ret.evidence :
                          ret.evidence[n].doc = i /\ ret.evidence[n].type = "visual_pattern"

\* ---- SpecSubtitle

\* the text of a line once its <...> tags and {...} directives are removed and
\* it is trimmed
Cleaned(idx) == _strip_sub_line(arg[idx])

\* the lines of the file that carry speech
SpeechLines ==
    { idx \in DOMAIN arg :
        /\ Cleaned(idx) # <<>>
        /\ \E i \in DOMAIN Cleaned(idx) : Cleaned(idx)[i] \notin SubDigits
        /\ \A i \in 1..(Len(Cleaned(idx)) - 2) : SubSeq(Cleaned(idx), i, i + 2) # ARROW }

\* C37: parsing a subtitle file yields exactly one chunk for every line whose
\* cleaned text is not empty, not digits only and without the timing arrow;
\* the chunks are in file order with strictly increasing 1-based line
\* numbers, and no chunk has an empty text.
C37_SubtitleChunks ==
    pc = "returned" =>
        /\ { ret[n].line : n \in DOMAIN ret } = SpeechLines
        /\ Len(ret) = Cardinality(SpeechLines)
        /\ \A n \in DOMAIN ret : ret[n].text = Cleaned(ret[n].line) /\ ret[n].text # <<>>
        /\ \A m, n \in DOMAIN ret : m < n => ret[m].line < ret[n].line

\* a file with a counter line, a timing line, a tagged line and a blank line
\* gave the one chunk of its tagged line
C37_Witness ==
    /\ pc = "returned"
    /\ \E i, j, k \in DOMAIN arg :
          /\ arg[i] = <<"7">> /\ arg[j] = <<"0", " ", "-", "-", ">", " ", "1">>
          /\ arg[k] = <<"<", "i", ">", "a", "<", "/", ">">>
          /\ i < j /\ j < k
    /\ Len(ret) = 1 /\ ret[1].line = 3 /\ ret[1].text = <<"a">>

\* ---- SpecMetrics

\* C38: after a run in which the three stages went well, the engagement
\* metrics of the report are those of fetch_result.json.
C38_MetricsReachReport ==
    pc = "returned" => ret.report.engagement_metrics = ret.fetch_result.engagement_metrics

\* C39: an evidence item made from an OCR hit is typed frame_ocr when the
\* hit is on a frame of the video and cover_ocr when it is on a still image of
\* the post, whatever the path of the image.
C39_OcrTypeTellsOrigin ==
    pc = "returned" =>
        \A n \in 1..ret.pool_sizes.ocr :
            /\ ret.evidence_pool[n].locator.s = "frame" => ret.evidence_pool[n].type = "frame_ocr"
            /\ ret.evidence_pool[n].locator.s = "image" => ret.evidence_pool[n].type = "cover_ocr"

\* ---- SpecCheck

\* one result for every checked skill
OnePerSkill(out) ==
    /\ Len(out) = Len(arg)
    /\ \A i \in DOMAIN arg : \E n \in DOMAIN out : out[n] = _one(arg[i], i)

\* C40: the printed list of cmd_check has exactly one result per checked
\* skill, in a list order that is the same whatever the order in which the
\* workers completed, also when two skills declare the same name: two runs
\* over the same skills root print the same list.
C40_CheckOrderIndependent ==
    pc = "returned" =>
        /\ \A r \in DOMAIN ret.printed : OnePerSkill(ret.printed[r])
        /\ ret.printed[1] = ret.printed[2]

\* ---- SpecUrl

\* C8: applying _normalize_content_url to its own output returns that output,
\* and every output has the platform of the original URL.
C8_NormalizeIdempotent ==
    \A k \in DOMAIN ret :
        /\ k >= 2 => ret[k].url = ret[k - 1].url
        /\ detect_platform(ret[k].url) = detect_platform(arg)

\* a user+modal_id URL that was rewritten, normalized a second time
C8_Witness ==
    /\ pc = "call" /\ Len(ret) >= 2
    /\ ret[1].url # arg
    /\ ret[1].note = "converted_user_modal_to_video"

\* ---- SpecCookie

\* C5: the variant list is the session variant (iff the session is ok and gives
\* an existing cookie file or a browser name), the browsers in the platform's
\* preference order without the one whose arguments the session variant
\* already has, and no-cookies last; no two variants have the same arguments.
C5_CookieVariantOrder ==
    pc = "returned" =>
        LET s == arg.session
            fileOk == s.cookies_file # "none" /\ s.cookies_file \in arg.exists
            hasS == s.ok /\ (fileOk \/ s.cookies_from_browser # "none")
            sargs == IF fileOk THEN <<"--cookies", s.cookies_file>>
                     ELSE <<"--cookies-from-browser", s.cookies_from_browser>>
            pref == IF arg.platform = "xiaohongshu"
                    THEN <<"chrome", "chromium", "safari", "firefox">>
                    ELSE <<"chrome", "chromium", "firefox", "safari">>
            kept == SelectSeq(pref, LAMBDA b : ~(hasS /\ sargs = <<"--cookies-from-browser", b>>))
            expected ==
                (IF hasS THEN <<[label |-> "session", args |-> sargs]>> ELSE <<>>)
                \o [i \in 1..Len(kept) |-> [label |-> BrowserLabel(kept[i]),
                                            args |-> <<"--cookies-from-browser", kept[i]>>]]
                \o <<[label |-> "no-cookies", args |-> <<>>]>>
        IN /\ ret = expected
           /\ \A i, j \in DOMAIN ret : i # j => ret[i].args # ret[j].args

\* a session that names a browser of the preference list: its variant comes
\* first and the browser's own variant is dropped
C5_Witness ==
    /\ pc = "returned"
    /\ ret[1].label = "session" /\ ret[1].args = <<"--cookies-from-browser", "safari">>
    /\ Len(ret) = 5

\* ---- SpecClassify

\* C10: the classification is the class of the first condition that holds in
\* the order tool missing, DNS, cookie permission, stale authentication,
\* 403/forbidden, 404, and the unknown class when none holds.
C10_FirstMatchWins ==
    pc = "returned" =>
        LET t == JoinStderr(arg.log)
            l == Lower(t)
            holds == <<"yt-dlp" \notin arg.path,
                       \E q \in {<<"nodename nor servname provided">>, <<"name or service not known">>,
                                 <<"temporary failure in name resolution">>, <<"failed to resolve">>} :
                           Contains(l, q),
                       \/ Contains(l, <<"cookie", "s.binary", "cookie", "s">>)
                       \/ Contains(l, <<"operation not permitted">>) /\ Contains(l, <<"cookie">>),
                       Contains(l, <<"fresh ", "cookie", "s", " are needed">>),
                       Contains(l, <<"http error ", "403">>) \/ Contains(l, <<"forbidden">>),
                       Contains(t, <<"404">>)>>
            class == <<R_TOOL_MISSING, R_DNS, R_COOKIE_PERMISSION, R_AUTH_STALE, R_FORBIDDEN, R_NOT_FOUND>>
            hits == {k \in 1..6 : holds[k]}
        IN ret = IF hits = {} THEN R_UNKNOWN
                 ELSE class[CHOOSE k \in hits : \A m \in hits : k <= m]

\* a stderr that matches the cookie-permission and the DNS pattern, classified as DNS
C10_Witness ==
    /\ pc = "returned" /\ ret = R_DNS
    /\ _looks_cookie_permission_error(JoinStderr(arg.log))
    /\ Len(arg.log) = 2

\* ---- SpecReclassify

\* C11: two evaluations of _derive_failure_reason on the same attempt log
\* return the same classification, whatever tools are installed at each.
C11_SameLogSameClass ==
    pc = "returned" => ret[1] = ret[2]

====
